---- MODULE Spec2Model ----
(***************************************************************************)
(* permachine: synthesis of machine-specific configuration outputs.        *)
(*                                                                         *)
(* The module models the file system as a map from normalized paths to     *)
(* nodes, and on top of it                                                 *)
(*   - the stale-output cleanup (src/core/cleanup.ts),                     *)
(*   - the merge executor (src/core/merger.ts) with its format adapters,   *)
(*   - the directory copier (src/core/directory-copier.ts),                *)
(*   - the operation scanner (src/core/file-scanner.ts).                   *)
(*                                                                         *)
(* A path is a sequence of name components.  A component is a record that  *)
(* keeps the parts of a file name the program looks at: the stem, the      *)
(* filter groups, the base marker, the extension, and the number of        *)
(* ".permachine-deleted" suffixes appended to it.                          *)
(***************************************************************************)
EXTENDS Integers, Sequences, FiniteSets, TLC

VARIABLES
  fs,             \* the disk: [set of existing normalized paths -> node]
  manifest,       \* the manifest file .permachine-outputs.json
  runs,           \* number of cleanupStaleOutputs calls made so far
  call,           \* arguments of the last cleanupStaleOutputs call
  cleanupResult,  \* CleanupResult returned by the last call
  sameAsPrev,     \* the last call was given the same outputs as the call before it
  prevRenamed,    \* the call before the last one renamed something
  phase,          \* "idle" before the scan, then "rejected", or "executing" and "done"
  scanResult,     \* what scanAllOperations returned (or the error it threw)
  pass,           \* which execution of the ScanResult is under way (1 or 2)
  mergeResults,   \* results performAllMerges has collected in this pass
  dirResults,     \* results performAllDirectoryCopies has collected in this pass
  firstPassOk,    \* every operation of the first pass succeeded
  writes,         \* file writes made in this pass
  proc,           \* the two concurrent cleanupStaleOutputs calls: where each stands
  start,          \* the disk and the manifest the two concurrent calls started from
  wphase,         \* watch mode: "off", "watching", "nothing", "stopped", "exited"
  wstate,         \* WatcherState: operations and directoryOperations
  debounceTimers, \* state.debounceTimers: changed path -> timer
  timers,         \* the timers set and not yet fired or cleared: id -> [path, remaining]
  adding,         \* add handlers waiting for their rescan
  inflight,       \* handleFileChange calls under way: [path, todo, seen]
  obs,            \* what an observer of the watcher has counted
  applied         \* a direct call of an exported function: its arguments and result

cleanupVars == <<fs, manifest, runs, call, cleanupResult, sameAsPrev, prevRenamed>>

pipelineVars == <<phase, scanResult, pass, mergeResults, dirResults, firstPassOk, writes>>

concVars == <<proc, start>>

watchVars == <<wphase, wstate, debounceTimers, timers, adding, inflight, obs>>

vars == <<fs, manifest, runs, call, cleanupResult, sameAsPrev, prevRenamed,
          phase, scanResult, pass, mergeResults, dirResults, firstPassOk, writes,
          proc, start, wphase, wstate, debounceTimers, timers, adding, inflight, obs,
          applied>>

----------------------------------------------------------------------------
(* Bounds *)

MaxOutputs == 2   \* longest currentOutputs list handed to a cleanup call
MaxRuns == 3      \* cleanup calls per behaviour

----------------------------------------------------------------------------
(* Names and paths *)

\*   stem     the name before any annotation ("config", ".env")
\*   filters  the {key=value} groups, in order
\*   mark     "none", "dotbase" (a literal .base), "phbase" (the {base} placeholder)
\*   lm       the dotted token of the legacy syntax ("m1" in config.m1.json), or ""
\*   ext      the extension (".json", ".jsonc", ".txt", "")
\*   del      number of .permachine-deleted suffixes
Nm(stem, ext) ==
  [stem |-> stem, filters |-> <<>>, mark |-> "none", lm |-> "", ext |-> ext, del |-> 0]

\* the "." path segment: a spelling that path.normalize removes
DotSeg == Nm(".", "")

normalize(p) == SelectSeq(p, LAMBDA c : c # DotSeg)

IsAncestor(p, q) ==
  /\ Len(p) < Len(q)
  /\ SubSeq(q, 1, Len(p)) = p

IsAtOrUnder(q, p) == q = p \/ IsAncestor(p, q)

----------------------------------------------------------------------------
(* File system *)

FileNode(c) == [kind |-> "file", content |-> c]
DirNode == [kind |-> "dir"]

pathExists(f, p) == normalize(p) \in DOMAIN f

IsDirectory(f, p) == pathExists(f, p) /\ f[normalize(p)].kind = "dir"

\* fs.rm(p, {recursive: true}) / fs.unlink(p)
RemoveTree(f, p) ==
  [q \in {r \in DOMAIN f : ~IsAtOrUnder(r, p)} |-> f[q]]

\* fs.rename(old, new) of a file or of a whole directory tree; new is absent
Rebase(q, old, new) == new \o SubSeq(q, Len(old) + 1, Len(q))

MoveTree(f, old, new) ==
  LET moved == {q \in DOMAIN f : IsAtOrUnder(q, old)}
      kept  == {q \in DOMAIN f : ~IsAtOrUnder(q, old) /\ ~IsAtOrUnder(q, new)}
      back(r) == CHOOSE q \in moved : Rebase(q, old, new) = r
  IN [r \in kept \cup {Rebase(q, old, new) : q \in moved} |->
        IF r \in kept THEN f[r] ELSE f[back(r)]]

\* fs.writeFile(p, c): creates or replaces the file at p
WriteFile(f, p, c) ==
  [q \in DOMAIN f \cup {p} |-> IF q = p THEN FileNode(c) ELSE f[q]]

\* the subtree at p, as a map from paths relative to p to nodes
SubTree(f, p) ==
  [r \in {SubSeq(q, Len(p) + 1, Len(q)) : q \in {x \in DOMAIN f : IsAtOrUnder(x, p)}}
     |-> f[p \o r]]

\* a set as a sequence, in the one order the directory listing gives
RECURSIVE SetToSeq(_)
SetToSeq(S) ==
  IF S = {} THEN <<>>
  ELSE LET x == CHOOSE y \in S : TRUE IN <<x>> \o SetToSeq(S \ {x})

----------------------------------------------------------------------------
(* Stale-output cleanup: src/core/cleanup.ts *)

MANIFEST_VERSION == 1

getDeletedPath(originalPath) ==
  [originalPath EXCEPT ![Len(originalPath)].del = @ + 1]

isDeletedPath(pathStr) == pathStr[Len(pathStr)].del > 0

getOriginalPath(deletedPath) ==
  IF ~isDeletedPath(deletedPath) THEN deletedPath
  ELSE [deletedPath EXCEPT ![Len(deletedPath)].del = @ - 1]

NoManifestFile == [present |-> FALSE, version |-> 0, outputs |-> <<>>, lastRun |-> 0]

\* null when the file is missing or carries another version
loadManifest(man) == man.present /\ man.version = MANIFEST_VERSION

saveManifest_normalized(outputs, now) ==
  [present |-> TRUE, version |-> MANIFEST_VERSION,
   outputs |-> [i \in 1..Len(outputs) |-> normalize(outputs[i])], lastRun |-> now]

saveManifest(outputs, now) ==
  [present |-> TRUE, version |-> MANIFEST_VERSION, outputs |-> outputs, lastRun |-> now]

renameToDeleted_statLost(f, originalPath, renameFails) ==
  LET deletedPath == getDeletedPath(originalPath)
      afterRm == IF deletedPath \in DOMAIN f THEN RemoveTree(f, deletedPath) ELSE f
  IN IF originalPath \notin DOMAIN f
       THEN [success |-> FALSE, isDirectory |-> FALSE, error |-> TRUE, fs |-> f]
     ELSE IF renameFails
       THEN [success |-> FALSE, isDirectory |-> FALSE, error |-> TRUE, fs |-> afterRm]
     ELSE [success |-> TRUE, isDirectory |-> FALSE,
           error |-> FALSE, fs |-> MoveTree(afterRm, originalPath, deletedPath)]

\* a variant that renames without removing what is at the deleted path: the
\* rename onto a path that is taken fails
renameToDeleted_keepsOldDeleted(f, originalPath, renameFails) ==
  LET deletedPath == getDeletedPath(originalPath)
  IN IF originalPath \notin DOMAIN f
       THEN [success |-> FALSE, isDirectory |-> FALSE, error |-> TRUE, fs |-> f]
     ELSE IF renameFails \/ deletedPath \in DOMAIN f
       THEN [success |-> FALSE, isDirectory |-> FALSE, error |-> TRUE, fs |-> f]
     ELSE [success |-> TRUE, isDirectory |-> f[originalPath].kind = "dir",
           error |-> FALSE, fs |-> MoveTree(f, originalPath, deletedPath)]

\* renameFails: fs.rename throws (permissions, a lock held by another process)
renameToDeleted(f, originalPath, renameFails) ==
  LET deletedPath == getDeletedPath(originalPath)
      afterRm == IF deletedPath \in DOMAIN f THEN RemoveTree(f, deletedPath) ELSE f
  IN IF originalPath \notin DOMAIN f
       THEN [success |-> FALSE, isDirectory |-> FALSE, error |-> TRUE, fs |-> f]
     ELSE IF renameFails
       THEN [success |-> FALSE, isDirectory |-> FALSE, error |-> TRUE, fs |-> afterRm]
     ELSE [success |-> TRUE, isDirectory |-> f[originalPath].kind = "dir",
           error |-> FALSE, fs |-> MoveTree(afterRm, originalPath, deletedPath)]

EmptyCleanupResult == [renamedFiles |-> <<>>, renamedDirectories |-> <<>>, errors |-> <<>>]

\* a variant of the loop that gives up at the first rename that fails
RECURSIVE RenameStaleOutputs_stopsAtError(_, _, _, _)
RenameStaleOutputs_stopsAtError(f, staleOutputs, failing, result) ==
  IF staleOutputs = <<>> THEN [fs |-> f, result |-> result]
  ELSE
    LET stalePath == Head(staleOutputs) IN
    IF ~pathExists(f, stalePath)
      THEN RenameStaleOutputs_stopsAtError(f, Tail(staleOutputs), failing, result)
    ELSE
      LET renameResult == renameToDeleted(f, stalePath, stalePath \in failing) IN
      IF renameResult.success
        THEN RenameStaleOutputs_stopsAtError(
               renameResult.fs, Tail(staleOutputs), failing,
               IF renameResult.isDirectory
                 THEN [result EXCEPT !.renamedDirectories = Append(@, stalePath)]
                 ELSE [result EXCEPT !.renamedFiles = Append(@, stalePath)])
      ELSE [fs |-> renameResult.fs,
            result |-> [result EXCEPT !.errors = Append(@, stalePath)]]

\* the loop over staleOutputs (cleanup.ts:214-231)
RECURSIVE RenameStaleOutputs(_, _, _, _)
RenameStaleOutputs(f, staleOutputs, failing, result) ==
  IF staleOutputs = <<>> THEN [fs |-> f, result |-> result]
  ELSE
    LET stalePath == Head(staleOutputs) IN
    IF ~pathExists(f, stalePath)
      THEN RenameStaleOutputs(f, Tail(staleOutputs), failing, result)
    ELSE
      LET renameResult == renameToDeleted(f, stalePath, stalePath \in failing)
          result2 ==
            IF renameResult.success
              THEN IF renameResult.isDirectory
                     THEN [result EXCEPT !.renamedDirectories = Append(@, stalePath)]
                     ELSE [result EXCEPT !.renamedFiles = Append(@, stalePath)]
            ELSE IF renameResult.error
              THEN [result EXCEPT !.errors = Append(@, stalePath)]
            ELSE result
      IN RenameStaleOutputs(renameResult.fs, Tail(staleOutputs), failing, result2)

\* cleanup.ts:206-211
staleOutputsOf_unnormalized(previous, currentOutputs) ==
  LET currentSet == {currentOutputs[i] : i \in 1..Len(currentOutputs)}
      previousOutputs == [i \in 1..Len(previous) |-> normalize(previous[i])]
  IN SelectSeq(previousOutputs, LAMBDA p : p \notin currentSet)

staleOutputsOf(previous, currentOutputs) ==
  LET currentSet == {normalize(currentOutputs[i]) : i \in 1..Len(currentOutputs)}
      previousOutputs == [i \in 1..Len(previous) |-> normalize(previous[i])]
  IN SelectSeq(previousOutputs, LAMBDA p : p \notin currentSet)

cleanupStaleOutputs_keepsOldManifest(f, man, currentOutputs, failing, now) ==
  IF ~loadManifest(man)
    THEN [fs |-> f, manifest |-> saveManifest(currentOutputs, now),
          result |-> EmptyCleanupResult]
  ELSE
    LET loop == RenameStaleOutputs(f, staleOutputsOf(man.outputs, currentOutputs),
                                   failing, EmptyCleanupResult)
    IN [fs |-> loop.fs,
        manifest |-> IF loop.result.errors # <<>> THEN man
                     ELSE saveManifest(currentOutputs, now),
        result |-> loop.result]

\* a variant whose loop gives up at the first rename that fails
cleanupStaleOutputs_stopsAtError(f, man, currentOutputs, failing, now) ==
  IF ~loadManifest(man)
    THEN [fs |-> f, manifest |-> saveManifest(currentOutputs, now),
          result |-> EmptyCleanupResult]
  ELSE
    LET loop == RenameStaleOutputs_stopsAtError(
                  f, staleOutputsOf(man.outputs, currentOutputs), failing,
                  EmptyCleanupResult)
    IN [fs |-> loop.fs, manifest |-> saveManifest(currentOutputs, now),
        result |-> loop.result]

cleanupStaleOutputs(f, man, currentOutputs, failing, now) ==
  IF ~loadManifest(man)
    THEN [fs |-> f, manifest |-> saveManifest(currentOutputs, now),
          result |-> EmptyCleanupResult]
  ELSE
    LET loop == RenameStaleOutputs(f, staleOutputsOf(man.outputs, currentOutputs),
                                   failing, EmptyCleanupResult)
    IN [fs |-> loop.fs, manifest |-> saveManifest(currentOutputs, now),
        result |-> loop.result]

\* a variant that renames over an original that is in place
restoreDeletedOutput_overwrites(f, deletedPath, renameFails) ==
  IF ~isDeletedPath(deletedPath) \/ ~pathExists(f, deletedPath) \/ renameFails
  THEN [fs |-> f, restored |-> FALSE]
  ELSE [fs |-> MoveTree(f, normalize(deletedPath),
                        normalize(getOriginalPath(deletedPath))),
        restored |-> TRUE]

\* restoreDeletedOutput(deletedPath): the disk afterwards and the boolean returned
restoreDeletedOutput(f, deletedPath, renameFails) ==
  IF ~isDeletedPath(deletedPath) THEN [fs |-> f, restored |-> FALSE]
  ELSE LET originalPath == getOriginalPath(deletedPath)
       IN IF ~pathExists(f, deletedPath) THEN [fs |-> f, restored |-> FALSE]
          ELSE IF pathExists(f, originalPath) THEN [fs |-> f, restored |-> FALSE]
          ELSE IF renameFails THEN [fs |-> f, restored |-> FALSE]
          ELSE [fs |-> MoveTree(f, normalize(deletedPath), normalize(originalPath)),
                restored |-> TRUE]

\* the directories the glob of purgeDeletedOutputs does not enter
PurgeIgnored == {Nm("node_modules", ""), Nm(".git", "")}

\* glob('**/*.permachine-deleted', {cwd, ignore, dot: true}), cwd being the root
purgeGlob(f) ==
  {p \in DOMAIN f : isDeletedPath(p) /\ p[1] \notin PurgeIgnored}

\* the loop of purgeDeletedOutputs: failing are the paths whose rm or unlink
\* throws; a path gone with its parent fails the stat and is passed over
RECURSIVE PurgeLoop(_, _, _, _)
PurgeLoop(f, deletedPaths, failing, purged) ==
  IF deletedPaths = <<>> THEN [fs |-> f, purged |-> purged]
  ELSE LET p == Head(deletedPaths)
       IN IF ~pathExists(f, p) \/ p \in failing
          THEN PurgeLoop(f, Tail(deletedPaths), failing, purged)
          ELSE PurgeLoop(RemoveTree(f, p), Tail(deletedPaths), failing, Append(purged, p))

purgeDeletedOutputs(f, failing) ==
  PurgeLoop(f, SetToSeq(purgeGlob(f)), failing, <<>>)

----------------------------------------------------------------------------
(* Filter language and name resolution: src/core/file-filters.ts *)

Flt(key, operator, value) == [key |-> key, operator |-> operator, value |-> value]

\* String.prototype.toLowerCase on the strings of this model
toLowerCase(s) ==
  CASE s = "Linux" -> "linux"
    [] s = "Windows" -> "windows"
    [] OTHER -> s

\* evaluateEquals: the value is the comma-separated list of options, each
\* compared in lower case with the context value in lower case
evaluateEquals(filterValue, contextValue) ==
  \E i \in 1..Len(filterValue) : toLowerCase(filterValue[i]) = toLowerCase(contextValue)

\* the pattern against the whole value, '*' standing for any run of characters
RECURSIVE WildcardMatches(_, _)
WildcardMatches(pattern, value) ==
  IF pattern = "" THEN value = ""
  ELSE IF Head(pattern) = "*"
  THEN WildcardMatches(Tail(pattern), value)
         \/ (value # "" /\ WildcardMatches(pattern, Tail(value)))
  ELSE value # "" /\ Head(pattern) = Head(value)
         /\ WildcardMatches(Tail(pattern), Tail(value))

\* evaluateWildcard: new RegExp('^' + pattern + '$', 'i').test(contextValue);
\* the value of a ~ filter is its one pattern
evaluateWildcard(filterValue, contextValue) ==
  WildcardMatches(toLowerCase(filterValue[1]), toLowerCase(contextValue))

\* the characters of the model's strings in the order of their code units
CodeUnits == "*-.0123456789abcdefghijklmnopqrstuvwxyz"

CodeOf(c) == CHOOSE i \in 1..Len(CodeUnits) : SubSeq(CodeUnits, i, i) = c

\* a <= b for two strings, as the comparison operators of the language order them
RECURSIVE StringLE(_, _)
StringLE(a, b) ==
  IF a = "" THEN TRUE
  ELSE IF b = "" THEN FALSE
  ELSE IF Head(a) = Head(b) THEN StringLE(Tail(a), Tail(b))
  ELSE CodeOf(Head(a)) < CodeOf(Head(b))

IsDigit(c) == c \in {"0", "1", "2", "3", "4", "5", "6", "7", "8", "9"}

\* the digits a string starts with, as a number; -1 when it starts with none
RECURSIVE LeadingDigits(_, _)
LeadingDigits(s, n) ==
  IF s = "" \/ ~IsDigit(Head(s)) THEN n
  ELSE LeadingDigits(Tail(s), (IF n < 0 THEN 0 ELSE n) * 10 + (CodeOf(Head(s)) - CodeOf("0")))

RECURSIVE AfterDigits(_)
AfterDigits(s) == IF s = "" \/ ~IsDigit(Head(s)) THEN s ELSE AfterDigits(Tail(s))

\* parseFloat, in tenths: the leading decimal number of the string with the
\* first digit of its fraction; NaN is -1
parseFloat(s) ==
  LET whole == LeadingDigits(s, -1)
      rest == AfterDigits(s)
  IN IF whole < 0 THEN -1
     ELSE IF Len(rest) >= 2 /\ Head(rest) = "." /\ IsDigit(Head(Tail(rest)))
     THEN whole * 10 + (CodeOf(Head(Tail(rest))) - CodeOf("0"))
     ELSE whole * 10

\* evaluateRange: the value of a ^ filter is split at '-' into its bounds; a
\* bound that is missing is undefined, and every comparison with it is false
evaluateRange(filterValue, contextValue) ==
  IF Len(filterValue) < 2 THEN FALSE
  ELSE LET min == filterValue[1]
           max == filterValue[2]
       IN IF parseFloat(contextValue) >= 0 /\ parseFloat(min) >= 0 /\ parseFloat(max) >= 0
          THEN parseFloat(contextValue) >= parseFloat(min)
                 /\ parseFloat(contextValue) <= parseFloat(max)
          ELSE StringLE(min, contextValue) /\ StringLE(contextValue, max)

\* what a context object inherits under the key "constructor": the function
\* Object; this is the text it is converted to where a string is needed
InheritedConstructor == "function Object() { [native code] }"

\* context[filter.key]: an own key, or the inherited one, or undefined
\* (written "null", as a null value is)
contextValueOf(context, key) ==
  IF key \in DOMAIN context THEN context[key]
  ELSE IF key = "constructor" THEN InheritedConstructor
  ELSE "null"

\* evaluateFilter throws: = and != call contextValue.toLowerCase(), which a
\* value that is no string does not have
evaluateFilterThrows(filter, context) ==
  /\ filter.key \notin DOMAIN context
  /\ contextValueOf(context, filter.key) # "null"
  /\ filter.operator \in {"=", "!="}

\* what evaluateFilter returns when it returns: a key whose context value is
\* null or undefined fails every filter
evaluateFilter(filter, context) ==
  LET contextValue == contextValueOf(context, filter.key) IN
  IF contextValue = "null" THEN FALSE
  ELSE CASE filter.operator = "="  -> evaluateEquals(filter.value, contextValue)
         [] filter.operator = "!=" -> ~evaluateEquals(filter.value, contextValue)
         [] filter.operator = "~"  -> evaluateWildcard(filter.value, contextValue)
         [] filter.operator = "^"  -> evaluateRange(filter.value, contextValue)
         [] OTHER -> FALSE

\* a variant for which one group that holds is enough
matchFilters_anyGroup(name, context) ==
  name.filters = <<>>
    \/ \E i \in 1..Len(name.filters) : evaluateFilter(name.filters[i], context)

\* parseFilters(name).filters, evaluated with AND
matchFilters(name, context) ==
  \A i \in 1..Len(name.filters) : evaluateFilter(name.filters[i], context)

hasFilters(name) == name.filters # <<>> \/ name.mark = "phbase"

\* parseFilters(name).baseFilename: every {...} group removed
getBaseFilename(name) ==
  [name EXCEPT !.filters = <<>>, !.mark = IF @ = "phbase" THEN "none" ELSE @]

isLegacyFilename(name, machineName) ==
  name.lm = machineName /\ ~hasFilters(name)

isBaseFile(name) == name.mark \in {"dotbase", "phbase"}

----------------------------------------------------------------------------
(* Format detection: src/adapters/adapter-factory.ts *)

\* names that start with ".env"
EnvStems == {".env"}

\* names that start with "."
HiddenStems == {".env"}

extname(name) ==
  IF name.del > 0 THEN ".permachine-deleted"
  ELSE IF name.ext # "" THEN name.ext
  ELSE IF name.filters # <<>> \/ name.mark # "none" \/ name.lm # "" THEN ".annotation"
  ELSE ""

getFileType(name) ==
  IF name.stem \in EnvStems THEN "env"
  ELSE IF extname(name) \in {".json", ".jsonc"} THEN "json"
  ELSE "unknown"

\* "env", "json", or "none" when no adapter handles the path
getAdapter(filePath) ==
  LET name == filePath[Len(filePath)] IN
  IF name.stem \in EnvStems THEN "env"
  ELSE IF extname(name) \in {".json", ".jsonc"} THEN "json"
  ELSE IF extname(name) \in {".env", ""} THEN "env"
  ELSE "none"

----------------------------------------------------------------------------
(* File contents and format adapters: src/adapters/json.ts, src/adapters/env.ts *)

\* The text of a file is a record [fmt, val]:
\*   fmt "json"   the text JSON.stringify(val, null, 2) + "\n"
\*   fmt "jsonc"  another spelling of val: comments, trailing commas, own spacing
\*   fmt "bad"    text that is not JSON after stripping comments
\*   fmt "env"    the lines KEY=value of val, as EnvAdapter.serialize writes them
\*   fmt "text"   any other text
\* A JSON value is [t, v] with t in "obj" (v a sequence of [k, v] entries in
\* key order), "arr" (v a sequence of values), "str", "num", "bool", "null"
\* (v the literal as a string).
Text(fmt, val) == [fmt |-> fmt, val |-> val]

JStr(s) == [t |-> "str", v |-> s]
JNum(s) == [t |-> "num", v |-> s]
JArr(items) == [t |-> "arr", v |-> items]
JObj(entries) == [t |-> "obj", v |-> entries]
JNull == [t |-> "null", v |-> "null"]
KV(k, v) == [k |-> k, v |-> v]

ParseError == [t |-> "ParseError", v |-> "Failed to parse JSON"]
ArrayMergeError == [t |-> "ArrayMergeError", v |-> "Cannot merge arrays containing non-primitives"]

IsError(x) == x.t \in {"ParseError", "ArrayMergeError"}

\* JsonAdapter.parse: comments and trailing commas are stripped, then JSON.parse
JsonParse(text) ==
  IF text.fmt \in {"json", "jsonc"} THEN text.val ELSE ParseError

\* JsonAdapter.serialize
JsonSerialize(data) == Text("json", data)

----------------------------------------------------------------------------
(* JsonAdapter.parse and serialize on the characters of a text.
   A text is a sequence of tokens [t, v]: "p" (one of { } [ ] , :), "ws"
   (white space), "line" and "block" (comments), "str" (v the characters
   between the quotes), "num" and "lit" (v the literal as written). *)

P(c) == [t |-> "p", v |-> c]
Ws(s) == [t |-> "ws", v |-> s]
StrTok(s) == [t |-> "str", v |-> s]
NumTok(s) == [t |-> "num", v |-> s]

IsCloser(token) == token \in {P("}"), P("]")}

\* stripJsonComments(content): a comment outside a string becomes white space
stripJsonComments(content) ==
  [i \in 1..Len(content) |->
     IF content[i].t \in {"line", "block"} THEN Ws(" ") ELSE content[i]]

\* \s*[}\]] at the start of the characters s
RECURSIVE ClosesAfterSpaces(_)
ClosesAfterSpaces(s) ==
  IF s = "" THEN FALSE
  ELSE LET c == SubSeq(s, 1, 1) IN
       IF c \in {" ", "\n", "\t"} THEN ClosesAfterSpaces(SubSeq(s, 2, Len(s)))
       ELSE c \in {"}", "]"}

\* s.replace(/,(\s*[}\]])/g, '$1') on the characters inside a string token
RECURSIVE ReplaceInCharacters(_)
ReplaceInCharacters(s) ==
  IF s = "" THEN ""
  ELSE LET c == SubSeq(s, 1, 1)
           rest == SubSeq(s, 2, Len(s))
       IN IF c = "," /\ ClosesAfterSpaces(rest)
          THEN ReplaceInCharacters(rest)
          ELSE c \o ReplaceInCharacters(rest)

\* \s*[}\]] at the start of the tokens
RECURSIVE CloserAfterSpaces(_)
CloserAfterSpaces(tokens) ==
  IF tokens = <<>> THEN FALSE
  ELSE IF Head(tokens).t = "ws" THEN CloserAfterSpaces(Tail(tokens))
  ELSE IsCloser(Head(tokens))

\* the text without the commas that stand before a closing bracket or brace
RECURSIVE WithoutTrailingCommas(_)
WithoutTrailingCommas(tokens) ==
  IF tokens = <<>> THEN <<>>
  ELSE LET token == Head(tokens) IN
       IF token = P(",") /\ CloserAfterSpaces(Tail(tokens))
         THEN WithoutTrailingCommas(Tail(tokens))
       ELSE <<token>> \o WithoutTrailingCommas(Tail(tokens))

\* stripped.replace(/,(\s*[}\]])/g, '$1'): the expression runs over the whole
\* text, the characters of its strings included
RECURSIVE removeTrailingCommas(_)
removeTrailingCommas(tokens) ==
  IF tokens = <<>> THEN <<>>
  ELSE LET token == Head(tokens) IN
       IF token = P(",") /\ CloserAfterSpaces(Tail(tokens))
         THEN removeTrailingCommas(Tail(tokens))
       ELSE IF token.t = "str"
         THEN <<StrTok(ReplaceInCharacters(token.v))>> \o removeTrailingCommas(Tail(tokens))
       ELSE <<token>> \o removeTrailingCommas(Tail(tokens))

\* the number a literal denotes, as JSON.stringify writes it
toNumber(literal) ==
  CASE literal = "1.0" -> "1"
    [] literal = "1e2" -> "100"
    [] OTHER -> literal

NoValue == [ok |-> FALSE, value |-> ParseError, rest |-> <<>>]

\* result[key] = value on the entries of an object under construction
SetEntry(entries, key, value) ==
  IF \E i \in 1..Len(entries) : entries[i].k = key
  THEN [i \in 1..Len(entries) |-> IF entries[i].k = key THEN KV(key, value) ELSE entries[i]]
  ELSE Append(entries, KV(key, value))

\* JSON.parse on the tokens left when white space is dropped
RECURSIVE ParseValue(_)
RECURSIVE ParseMembers(_, _)
RECURSIVE ParseElements(_, _)
ParseValue(tokens) ==
  IF tokens = <<>> THEN NoValue
  ELSE
    LET token == Head(tokens)
        rest == Tail(tokens)
    IN CASE token.t = "str" -> [ok |-> TRUE, value |-> JStr(token.v), rest |-> rest]
         [] token.t = "num" -> [ok |-> TRUE, value |-> JNum(toNumber(token.v)), rest |-> rest]
         [] token.t = "lit" ->
              [ok |-> TRUE,
               value |-> IF token.v = "null" THEN JNull ELSE [t |-> "bool", v |-> token.v],
               rest |-> rest]
         [] token = P("{") ->
              IF rest # <<>> /\ Head(rest) = P("}")
              THEN [ok |-> TRUE, value |-> JObj(<<>>), rest |-> Tail(rest)]
              ELSE ParseMembers(rest, <<>>)
         [] token = P("[") ->
              IF rest # <<>> /\ Head(rest) = P("]")
              THEN [ok |-> TRUE, value |-> JArr(<<>>), rest |-> Tail(rest)]
              ELSE ParseElements(rest, <<>>)
         [] OTHER -> NoValue

ParseMembers(tokens, entries) ==
  IF Len(tokens) < 3 \/ tokens[1].t # "str" \/ tokens[2] # P(":") THEN NoValue
  ELSE
    LET member == ParseValue(SubSeq(tokens, 3, Len(tokens))) IN
    IF ~member.ok \/ member.rest = <<>> THEN NoValue
    ELSE
      LET entries2 == SetEntry(entries, tokens[1].v, member.value) IN
      IF Head(member.rest) = P(",") THEN ParseMembers(Tail(member.rest), entries2)
      ELSE IF Head(member.rest) = P("}")
        THEN [ok |-> TRUE, value |-> JObj(entries2), rest |-> Tail(member.rest)]
      ELSE NoValue

ParseElements(tokens, items) ==
  LET element == ParseValue(tokens) IN
  IF ~element.ok \/ element.rest = <<>> THEN NoValue
  ELSE
    LET items2 == Append(items, element.value) IN
    IF Head(element.rest) = P(",") THEN ParseElements(Tail(element.rest), items2)
    ELSE IF Head(element.rest) = P("]")
      THEN [ok |-> TRUE, value |-> JArr(items2), rest |-> Tail(element.rest)]
    ELSE NoValue

JSONparse(tokens) ==
  LET r == ParseValue(SelectSeq(tokens, LAMBDA token : token.t # "ws")) IN
  IF r.ok /\ r.rest = <<>> THEN r.value ELSE ParseError

\* the value a text denotes: comments and trailing commas carry no meaning,
\* and the characters between two quotes are the string's value
Denotes(content) ==
  JSONparse(WithoutTrailingCommas(
              SelectSeq(content, LAMBDA token : token.t \notin {"line", "block"})))

\* JsonAdapter.parse(content)
parse(content) == JSONparse(removeTrailingCommas(stripJsonComments(content)))

\* JSON.stringify(data, null, 2): one member or element a line (the width of
\* the indentation is not kept)
RECURSIVE Stringify(_)
RECURSIVE StringifyAll(_, _)
Stringify(data) ==
  CASE data.t = "obj" ->
         IF data.v = <<>> THEN <<P("{"), P("}")>>
         ELSE <<P("{"), Ws("\n")>> \o StringifyAll(data.v, TRUE) \o <<Ws("\n"), P("}")>>
    [] data.t = "arr" ->
         IF data.v = <<>> THEN <<P("["), P("]")>>
         ELSE <<P("["), Ws("\n")>> \o StringifyAll(data.v, FALSE) \o <<Ws("\n"), P("]")>>
    [] data.t = "str" -> <<StrTok(data.v)>>
    [] data.t = "num" -> <<NumTok(data.v)>>
    [] OTHER -> <<[t |-> "lit", v |-> data.v]>>

StringifyAll(members, keyed) ==
  LET first == IF keyed
               THEN <<StrTok(members[1].k), P(":"), Ws(" ")>> \o Stringify(members[1].v)
               ELSE Stringify(members[1])
  IN IF Len(members) = 1 THEN first
     ELSE first \o <<P(","), Ws("\n")>> \o StringifyAll(Tail(members), keyed)

\* JsonAdapter.serialize(data)
serialize(data) == Stringify(data) \o <<Ws("\n")>>

----------------------------------------------------------------------------

isPrimitive(value) == value.t \in {"null", "str", "num", "bool"}

isArrayOfPrimitives(arr) == \A i \in 1..Len(arr) : isPrimitive(arr[i])

\* the order-preserving union a Set gives: first occurrences only
RECURSIVE Dedupe(_, _)
Dedupe(items, result) ==
  IF items = <<>> THEN result
  ELSE Dedupe(Tail(items),
              IF \E i \in 1..Len(result) : result[i] = Head(items)
              THEN result ELSE Append(result, Head(items)))

\* a variant whose duplicates are the elements that print alike: 1 and "1"
mergeArrays_looseEquality(base, machine) ==
  LET all == base \o machine
      firsts == {i \in 1..Len(all) : \A j \in 1..(i - 1) : all[j].v # all[i].v}
  IN IF ~isArrayOfPrimitives(base) \/ ~isArrayOfPrimitives(machine)
     THEN ArrayMergeError
     ELSE JArr([k \in 1..Cardinality(firsts) |->
                  all[CHOOSE i \in firsts : Cardinality({j \in firsts : j < i}) = k - 1]])

\* a variant that lets the machine's array stand in for arrays it cannot merge
mergeArrays_replaces(base, machine) ==
  IF ~isArrayOfPrimitives(base) \/ ~isArrayOfPrimitives(machine)
  THEN JArr(machine)
  ELSE JArr(Dedupe(base \o machine, <<>>))

mergeArrays(base, machine) ==
  IF ~isArrayOfPrimitives(base) \/ ~isArrayOfPrimitives(machine)
  THEN ArrayMergeError
  ELSE JArr(Dedupe(base \o machine, <<>>))

IndexOfKey(entries, key) ==
  IF \E i \in 1..Len(entries) : entries[i].k = key
  THEN CHOOSE i \in 1..Len(entries) : entries[i].k = key
  ELSE 0

RECURSIVE deepMerge(_, _)
RECURSIVE MergeEntries(_, _)

\* the loop of deepMerge over the machine object's keys; result starts as
\* {...base}.  'key in result' also finds what result inherits: for the key
\* "__proto__" that is the accessor of Object.prototype, and the assignment
\* result["__proto__"] = value goes to its setter and gives result no own key
\* (what result inherits after the setter has run is not followed further)
MergeEntries(result, machineEntries) ==
  IF machineEntries = <<>> THEN JObj(result)
  ELSE LET e == Head(machineEntries)
           j == IndexOfKey(result, e.k)
       IN IF j = 0 /\ e.k = "__proto__" THEN MergeEntries(result, Tail(machineEntries))
          ELSE IF j = 0 THEN MergeEntries(Append(result, e), Tail(machineEntries))
          ELSE LET sub == deepMerge(result[j].v, e.v)
               IN IF IsError(sub) THEN sub
                  ELSE MergeEntries([result EXCEPT ![j].v = sub], Tail(machineEntries))

deepMerge(base, machine) ==
  IF base.t = "arr" /\ machine.t = "arr" THEN mergeArrays(base.v, machine.v)
  ELSE IF machine.t # "obj" THEN machine
  ELSE IF base.t # "obj" THEN machine
  ELSE MergeEntries(base.v, machine.v)

\* EnvAdapter.parse: a Map filled line by line; text without KEY=value lines
\* gives the empty map
RECURSIVE EnvUpsert(_, _)
EnvUpsert(result, entries) ==
  IF entries = <<>> THEN result
  ELSE LET e == Head(entries)
           j == IndexOfKey(result, e.k)
       IN EnvUpsert(IF j = 0 THEN Append(result, e) ELSE [result EXCEPT ![j].v = e.v],
                    Tail(entries))

EnvParse(text) == IF text.fmt = "env" THEN EnvUpsert(<<>>, text.val) ELSE <<>>

EnvMerge(base, machine) == EnvUpsert(base, machine)

EnvSerialize(data) == Text("env", data)

\* adapter.serialize(adapter.merge(adapter.parse(base), adapter.parse(machine))):
\* [error, content], error naming what was thrown on the way
MergedContent(adapter, baseContent, machineContent) ==
  IF adapter = "env"
  THEN [error |-> "none",
        content |-> EnvSerialize(EnvMerge(EnvParse(baseContent), EnvParse(machineContent)))]
  ELSE LET baseParsed == JsonParse(baseContent)
           machineParsed == JsonParse(machineContent)
           Failed(e) == [error |-> e.t, content |-> Text("bad", "")]
       IN IF IsError(baseParsed) THEN Failed(baseParsed)
          ELSE IF IsError(machineParsed) THEN Failed(machineParsed)
          ELSE LET merged == deepMerge(baseParsed, machineParsed)
               IN IF IsError(merged) THEN Failed(merged)
                  ELSE [error |-> "none", content |-> JsonSerialize(merged)]

----------------------------------------------------------------------------
(* Merge executor: src/core/merger.ts *)

dirname(p) == SubSeq(p, 1, Len(p) - 1)

\* fileExists: fs.access succeeds; the empty path '' is no file
fileExists(f, filePath) == filePath # <<>> /\ pathExists(f, filePath)

\* fs.writeFile needs the parent to be a directory and the target not to be one
CanWriteFile(f, p) ==
  /\ p # <<>>
  /\ (Len(p) = 1 \/ IsDirectory(f, dirname(p)))
  /\ ~IsDirectory(f, p)

MergeResult(operation, success, changed, skipped, error) ==
  [operation |-> operation, success |-> success, changed |-> changed,
   skipped |-> skipped, error |-> error]

\* a variant that parses and formats a source that stands alone
ComputeMerged_formatsLoneSource(f, operation, adapter) ==
  LET baseExists == fileExists(f, operation.basePath)
      machineExists == fileExists(f, operation.machinePath)
      Read(p) == IF IsDirectory(f, p)
                 THEN [error |-> "EISDIR", content |-> Text("bad", "")]
                 ELSE [error |-> "none", content |-> f[normalize(p)].content]
      Format(r) == IF r.error # "none" THEN r
                   ELSE MergedContent(adapter, r.content, r.content)
  IN IF baseExists /\ machineExists
     THEN LET b == Read(operation.basePath)
              m == Read(operation.machinePath)
          IN IF b.error # "none" THEN b
             ELSE IF m.error # "none" THEN m
             ELSE MergedContent(adapter, b.content, m.content)
     ELSE IF machineExists THEN Format(Read(operation.machinePath))
     ELSE Format(Read(operation.basePath))

\* the content performMerge computes for the output: [error, content]
ComputeMerged(f, operation, adapter) ==
  LET baseExists == fileExists(f, operation.basePath)
      machineExists == fileExists(f, operation.machinePath)
      Read(p) == IF IsDirectory(f, p)
                 THEN [error |-> "EISDIR", content |-> Text("bad", "")]
                 ELSE [error |-> "none", content |-> f[normalize(p)].content]
  IN IF baseExists /\ machineExists
     THEN LET b == Read(operation.basePath)
              m == Read(operation.machinePath)
          IN IF b.error # "none" THEN b
             ELSE IF m.error # "none" THEN m
             ELSE MergedContent(adapter, b.content, m.content)
     ELSE IF machineExists THEN Read(operation.machinePath)
     ELSE Read(operation.basePath)

\* a variant that writes whenever it has a result, without comparing
performMerge_alwaysWrites(f, operation, writeFails) ==
  LET adapter == getAdapter(operation.outputPath)
      merged == ComputeMerged(f, operation, adapter)
      out == normalize(operation.outputPath)
  IN IF adapter = "none"
     THEN [fs |-> f, wrote |-> 0,
           result |-> MergeResult(operation, FALSE, FALSE, TRUE, "NoAdapter")]
     ELSE IF ~fileExists(f, operation.basePath) /\ ~fileExists(f, operation.machinePath)
     THEN [fs |-> f, wrote |-> 0,
           result |-> MergeResult(operation, FALSE, FALSE, TRUE, "none")]
     ELSE IF merged.error # "none"
     THEN [fs |-> f, wrote |-> 0,
           result |-> MergeResult(operation, FALSE, FALSE, FALSE, merged.error)]
     ELSE IF writeFails \/ ~CanWriteFile(f, out)
     THEN [fs |-> f, wrote |-> 0,
           result |-> MergeResult(operation, FALSE, FALSE, FALSE, "WriteError")]
     ELSE [fs |-> WriteFile(f, out, merged.content), wrote |-> 1,
           result |-> MergeResult(operation, TRUE, TRUE, FALSE, "none")]

\* a variant that opens the output for writing before it parses the sources
performMerge_truncatesFirst(f, operation, writeFails) ==
  LET adapter == getAdapter(operation.outputPath)
      merged == ComputeMerged(f, operation, adapter)
      out == normalize(operation.outputPath)
  IN IF adapter = "none"
     THEN [fs |-> f, wrote |-> 0,
           result |-> MergeResult(operation, FALSE, FALSE, TRUE, "NoAdapter")]
     ELSE IF ~fileExists(f, operation.basePath) /\ ~fileExists(f, operation.machinePath)
     THEN [fs |-> f, wrote |-> 0,
           result |-> MergeResult(operation, FALSE, FALSE, TRUE, "none")]
     ELSE IF merged.error # "none"
     THEN [fs |-> IF CanWriteFile(f, out) THEN WriteFile(f, out, Text("text", "")) ELSE f,
           wrote |-> IF CanWriteFile(f, out) THEN 1 ELSE 0,
           result |-> MergeResult(operation, FALSE, FALSE, FALSE, merged.error)]
     ELSE IF IsDirectory(f, out)
     THEN [fs |-> f, wrote |-> 0,
           result |-> MergeResult(operation, FALSE, FALSE, FALSE, "EISDIR")]
     ELSE IF pathExists(f, out) /\ f[out].content = merged.content
     THEN [fs |-> f, wrote |-> 0,
           result |-> MergeResult(operation, TRUE, FALSE, FALSE, "none")]
     ELSE IF writeFails \/ ~CanWriteFile(f, out)
     THEN [fs |-> f, wrote |-> 0,
           result |-> MergeResult(operation, FALSE, FALSE, FALSE, "WriteError")]
     ELSE [fs |-> WriteFile(f, out, merged.content), wrote |-> 1,
           result |-> MergeResult(operation, TRUE, TRUE, FALSE, "none")]

\* a variant that reports an operation without sources as done
performMerge_noSourceSucceeds(f, operation, writeFails) ==
  LET adapter == getAdapter(operation.outputPath)
      merged == ComputeMerged(f, operation, adapter)
      out == normalize(operation.outputPath)
  IN IF adapter = "none"
     THEN [fs |-> f, wrote |-> 0,
           result |-> MergeResult(operation, FALSE, FALSE, TRUE, "NoAdapter")]
     ELSE IF ~fileExists(f, operation.basePath) /\ ~fileExists(f, operation.machinePath)
     THEN [fs |-> f, wrote |-> 0,
           result |-> MergeResult(operation, TRUE, FALSE, TRUE, "none")]
     ELSE IF merged.error # "none"
     THEN [fs |-> f, wrote |-> 0,
           result |-> MergeResult(operation, FALSE, FALSE, FALSE, merged.error)]
     ELSE IF IsDirectory(f, out)
     THEN [fs |-> f, wrote |-> 0,
           result |-> MergeResult(operation, FALSE, FALSE, FALSE, "EISDIR")]
     ELSE IF pathExists(f, out) /\ f[out].content = merged.content
     THEN [fs |-> f, wrote |-> 0,
           result |-> MergeResult(operation, TRUE, FALSE, FALSE, "none")]
     ELSE IF writeFails \/ ~CanWriteFile(f, out)
     THEN [fs |-> f, wrote |-> 0,
           result |-> MergeResult(operation, FALSE, FALSE, FALSE, "WriteError")]
     ELSE [fs |-> WriteFile(f, out, merged.content), wrote |-> 1,
           result |-> MergeResult(operation, TRUE, TRUE, FALSE, "none")]

\* performMerge on disk f: the disk afterwards, the number of file writes, the result
performMerge(f, operation, writeFails) ==
  LET adapter == getAdapter(operation.outputPath)
      merged == ComputeMerged(f, operation, adapter)
      out == normalize(operation.outputPath)
  IN IF adapter = "none"
     THEN [fs |-> f, wrote |-> 0,
           result |-> MergeResult(operation, FALSE, FALSE, TRUE, "NoAdapter")]
     ELSE IF ~fileExists(f, operation.basePath) /\ ~fileExists(f, operation.machinePath)
     THEN [fs |-> f, wrote |-> 0,
           result |-> MergeResult(operation, FALSE, FALSE, TRUE, "none")]
     ELSE IF merged.error # "none"
     THEN [fs |-> f, wrote |-> 0,
           result |-> MergeResult(operation, FALSE, FALSE, FALSE, merged.error)]
     ELSE IF IsDirectory(f, out)
     THEN [fs |-> f, wrote |-> 0,
           result |-> MergeResult(operation, FALSE, FALSE, FALSE, "EISDIR")]
     ELSE IF pathExists(f, out) /\ f[out].content = merged.content
     THEN [fs |-> f, wrote |-> 0,
           result |-> MergeResult(operation, TRUE, FALSE, FALSE, "none")]
     ELSE IF writeFails \/ ~CanWriteFile(f, out)
     THEN [fs |-> f, wrote |-> 0,
           result |-> MergeResult(operation, FALSE, FALSE, FALSE, "WriteError")]
     ELSE [fs |-> WriteFile(f, out, merged.content), wrote |-> 1,
           result |-> MergeResult(operation, TRUE, TRUE, FALSE, "none")]

\* the write of performMerge is attempted: the one step a disk failure can hit
AttemptsWrite(f, operation) ==
  performMerge(f, operation, FALSE).wrote = 1

----------------------------------------------------------------------------
(* Directory copier: src/core/directory-copier.ts *)

Prefixes(p) == {SubSeq(p, 1, n) : n \in 1..Len(p)}

\* fs.mkdir(p, {recursive: true}): fails when a file is in the way
CanMkdir(f, p) == \A q \in Prefixes(p) : pathExists(f, q) => IsDirectory(f, q)

Mkdir(f, p) ==
  [q \in DOMAIN f \cup Prefixes(p) |-> IF q \in DOMAIN f THEN f[q] ELSE DirNode]

\* the files beneath dir; none when dir cannot be listed
getAllFiles(f, dir) ==
  IF IsDirectory(f, dir)
  THEN SetToSeq({q \in DOMAIN f : IsAncestor(normalize(dir), q) /\ f[q].kind # "dir"})
  ELSE <<>>

\* a symbolic link and the path fs.stat, fs.open and fs.copyFile reach through it
LinkNode(target) == [kind |-> "link", target |-> target]

IsSymbolicLink(f, p) == pathExists(f, p) /\ f[p].kind = "link"

Resolve(f, p) == IF IsSymbolicLink(f, p) THEN f[p].target ELSE p

\* both paths are opened, links followed, and their bytes compared
filesAreEqual(f, path1, path2) ==
  LET file1 == Resolve(f, path1)
      file2 == Resolve(f, path2)
  IN /\ pathExists(f, file1) /\ pathExists(f, file2)
     /\ f[file1].kind = "file" /\ f[file2].kind = "file"
     /\ f[file1].content = f[file2].content

\* copyFile(sourcePath, destPath): [ok, written, fs]. A link is copied as a
\* link; a regular file is copied with fs.copyFile, which opens destPath for
\* writing and so writes the file a link at destPath points to
copyFile(f, sourcePath, destPath) ==
  IF IsSymbolicLink(f, sourcePath)
  THEN IF IsSymbolicLink(f, destPath) /\ f[destPath].target = f[sourcePath].target
       THEN [ok |-> TRUE, written |-> FALSE, fs |-> f]
       ELSE IF IsDirectory(f, destPath)
       THEN [ok |-> FALSE, written |-> FALSE, fs |-> f]
       ELSE [ok |-> TRUE, written |-> TRUE,
             fs |-> [q \in DOMAIN f \cup {destPath} |->
                       IF q = destPath THEN f[sourcePath] ELSE f[q]]]
  ELSE IF filesAreEqual(f, sourcePath, destPath)
  THEN [ok |-> TRUE, written |-> FALSE, fs |-> f]
  ELSE IF IsDirectory(f, Resolve(f, destPath)) \/ ~pathExists(f, sourcePath)
  THEN [ok |-> FALSE, written |-> FALSE, fs |-> f]
  ELSE [ok |-> TRUE, written |-> TRUE,
        fs |-> WriteFile(f, Resolve(f, destPath), f[sourcePath].content)]

\* the loop of performDirectoryCopy over the listed files
RECURSIVE CopyFiles(_, _, _, _, _, _)
CopyFiles(f, files, sourcePath, outputPath, filesWritten, filesUnchanged) ==
  IF files = <<>>
  THEN [ok |-> TRUE, fs |-> f, filesWritten |-> filesWritten,
        filesUnchanged |-> filesUnchanged]
  ELSE LET destPath == Rebase(Head(files), sourcePath, outputPath)
           destDir == dirname(destPath)
       IN IF ~CanMkdir(f, destDir)
          THEN [ok |-> FALSE, fs |-> f, filesWritten |-> filesWritten,
                filesUnchanged |-> filesUnchanged]
          ELSE LET c == copyFile(Mkdir(f, destDir), Head(files), destPath)
               IN IF ~c.ok
                  THEN [ok |-> FALSE, fs |-> c.fs, filesWritten |-> filesWritten,
                        filesUnchanged |-> filesUnchanged]
                  ELSE CopyFiles(c.fs, Tail(files), sourcePath, outputPath,
                                 filesWritten + (IF c.written THEN 1 ELSE 0),
                                 filesUnchanged + (IF c.written THEN 0 ELSE 1))

DirectoryCopyResult(operation, success, filesWritten, filesUnchanged, error) ==
  [operation |-> operation, success |-> success, filesWritten |-> filesWritten,
   filesUnchanged |-> filesUnchanged, changed |-> filesWritten > 0, error |-> error]

\* performDirectoryCopy on disk f: the disk afterwards, the file writes made, the result
performDirectoryCopy(f, operation) ==
  LET sourcePath == normalize(operation.sourcePath)
      outputPath == normalize(operation.outputPath)
      files == getAllFiles(f, sourcePath)
  IN IF ~CanMkdir(f, outputPath)
     THEN [fs |-> f, wrote |-> 0,
           result |-> DirectoryCopyResult(operation, FALSE, 0, 0, "DirectoryCopyError")]
     ELSE LET c == CopyFiles(Mkdir(f, outputPath), files, sourcePath, outputPath, 0, 0)
          IN IF c.ok
             THEN [fs |-> c.fs, wrote |-> c.filesWritten,
                   result |-> DirectoryCopyResult(operation, TRUE, c.filesWritten,
                                                  c.filesUnchanged, "none")]
             ELSE [fs |-> c.fs, wrote |-> c.filesWritten,
                   result |-> DirectoryCopyResult(operation, FALSE, 0, 0,
                                                  "DirectoryCopyError")]

----------------------------------------------------------------------------
(* Directory names.  isFilteredDirectory, matchDirectoryFilters,            *)
(* getBaseDirectoryName and isBaseDirectory are imported by file-scanner.ts *)
(* from file-filters.ts; they apply the file-name rules to a directory name *)

isFilteredDirectory(dirname_) == hasFilters(dirname_)

matchDirectoryFilters(dirname_, context) == matchFilters(dirname_, context)

getBaseDirectoryName(dirname_) == getBaseFilename(dirname_)

\* the name ends with ".base", or carries the {base} placeholder
isBaseDirectory(dirname_) ==
  \/ dirname_.mark = "dotbase" /\ dirname_.ext = "" /\ dirname_.del = 0
  \/ dirname_.mark = "phbase"

----------------------------------------------------------------------------
(* Operation scanner: src/core/file-scanner.ts *)

MachineName == "m1"

\* createCustomContext({machine: machineName}) on the machine the scan runs on
Context == [os |-> "linux", arch |-> "x64", machine |-> MachineName,
            user |-> "u1", env |-> "null", platform |-> "linux"]

basename(p) == p[Len(p)]

NoOperation == [basePath |-> <<>>, machinePath |-> <<>>, outputPath |-> <<>>,
                type |-> "unknown"]

\* ".jsonc" at the end of an output name becomes ".json"
JsonOutputExt(name) ==
  IF name.del = 0 /\ name.ext = ".jsonc" THEN [name EXCEPT !.ext = ".json"] ELSE name

createBaseOnlyMergeOperation(baseFile) ==
  LET fullBasename == basename(baseFile)
      type == getFileType(fullBasename)
      stripped == [fullBasename EXCEPT !.mark = "none"]
      outputName == IF type = "env" THEN stripped ELSE JsonOutputExt(stripped)
  IN IF type = "unknown" THEN NoOperation
     ELSE [basePath |-> baseFile, machinePath |-> <<>>,
           outputPath |-> Append(dirname(baseFile), outputName), type |-> type]

createMergeOperation(machineFile, machineName) ==
  LET fullBasename == basename(machineFile)
      type == getFileType(fullBasename)
      dir == dirname(machineFile)
      Op(baseName, outputName) ==
        [basePath |-> Append(dir, baseName), machinePath |-> machineFile,
         outputPath |-> Append(dir, outputName), type |-> type]
  IN IF type = "unknown" THEN NoOperation
     ELSE IF hasFilters(fullBasename)
     THEN LET plain == getBaseFilename(fullBasename)
              outputName == IF type = "json" THEN JsonOutputExt(plain) ELSE plain
          IN Op([plain EXCEPT !.mark = "dotbase"], outputName)
     ELSE IF fullBasename.lm = machineName
               /\ (type # "env" \/ (fullBasename.ext = "" /\ fullBasename.del = 0))
     THEN LET withoutMachine == [fullBasename EXCEPT !.lm = ""]
          IN Op([withoutMachine EXCEPT !.mark = "dotbase"],
                IF type = "env" THEN withoutMachine ELSE JsonOutputExt(withoutMachine))
     ELSE NoOperation

Files(f) == {p \in DOMAIN f : f[p].kind # "dir"}

HasBraces(name) == name.filters # <<>> \/ name.mark = "phbase"

IsHidden(name) == name.stem \in HiddenStems

HasSuffixPart(name) == name.ext # "" \/ name.del > 0

\* the ignore list of the overlay globs: **/*.base.* and **/.*base*
IgnoredAsBase(name) ==
  \/ name.mark = "dotbase" /\ HasSuffixPart(name)
  \/ IsHidden(name) /\ name.mark # "none"

\* **/*.<machine>.*, **/.*.<machine>, **/.*.<machine>.*
MatchesLegacyGlob(name, machineName) ==
  name.lm = machineName /\ (HasSuffixPart(name) \/ IsHidden(name))

\* the overlay globs, de-duplicated, new syntax first
foundMachineFiles(f, machineName) ==
  LET newSyntax == {p \in Files(f) : HasBraces(basename(p)) /\ ~IgnoredAsBase(basename(p))}
      legacy == {p \in Files(f) : MatchesLegacyGlob(basename(p), machineName)
                                    /\ ~IgnoredAsBase(basename(p))}
  IN SetToSeq(newSyntax) \o SetToSeq(legacy \ newSyntax)

\* the four base globs, one after the other
foundBaseFiles(f) ==
  LET Plain(p) == basename(p).mark = "dotbase" /\ basename(p).del = 0
      json == {p \in Files(f) : Plain(p) /\ basename(p).ext = ".json"}
      jsonc == {p \in Files(f) : Plain(p) /\ basename(p).ext = ".jsonc"}
      dotEnd == {p \in Files(f) : Plain(p) /\ IsHidden(basename(p)) /\ basename(p).ext = ""}
      dotMid == {p \in Files(f) : Plain(p) /\ IsHidden(basename(p)) /\ basename(p).ext # ""}
  IN SetToSeq(json) \o SetToSeq(jsonc) \o SetToSeq(dotEnd) \o SetToSeq(dotMid)

NoScanState == [operations |-> <<>>, processedOutputs |-> {},
                baseFilesWithMachineFiles |-> {}]

\* the first loop of scanForMergeOperations
RECURSIVE ScanMachineFiles(_, _, _, _)
ScanMachineFiles(files, machineName, context, st) ==
  IF files = <<>> THEN st
  ELSE LET file == Head(files)
           name == basename(file)
           operation == createMergeOperation(file, machineName)
           tracked == (hasFilters(name) \/ isLegacyFilename(name, machineName))
                        /\ operation # NoOperation
           shouldProcess == IF hasFilters(name) THEN matchFilters(name, context)
                            ELSE isLegacyFilename(name, machineName)
           st1 == IF tracked
                  THEN [st EXCEPT !.baseFilesWithMachineFiles = @ \cup {operation.basePath}]
                  ELSE st
           st2 == IF shouldProcess /\ operation # NoOperation
                  THEN [st1 EXCEPT !.operations = Append(@, operation),
                                   !.processedOutputs = @ \cup {operation.outputPath}]
                  ELSE st1
       IN IF isBaseFile(name)
          THEN ScanMachineFiles(Tail(files), machineName, context, st)
          ELSE ScanMachineFiles(Tail(files), machineName, context, st2)

\* the second loop of scanForMergeOperations
RECURSIVE ScanBaseFiles(_, _)
ScanBaseFiles(baseFiles, st) ==
  IF baseFiles = <<>> THEN st
  ELSE LET baseFile == Head(baseFiles)
           operation == createBaseOnlyMergeOperation(baseFile)
       IN IF baseFile \in st.baseFilesWithMachineFiles
          THEN ScanBaseFiles(Tail(baseFiles), st)
          ELSE IF operation # NoOperation /\ operation.outputPath \notin st.processedOutputs
          THEN ScanBaseFiles(Tail(baseFiles),
                 [st EXCEPT !.operations = Append(@, operation),
                            !.processedOutputs = @ \cup {operation.outputPath}])
          ELSE ScanBaseFiles(Tail(baseFiles), st)

scanForMergeOperations(f, machineName) ==
  ScanBaseFiles(foundBaseFiles(f),
                ScanMachineFiles(foundMachineFiles(f, machineName), machineName,
                                 Context, NoScanState)).operations

\* the entries the directory glob **/*{*}* returns that are directories
potentialDirs(f) ==
  SetToSeq({p \in DOMAIN f : f[p].kind = "dir" /\ HasBraces(basename(p))})

\* (variant: only the components that match the context count)
validateNoNestedFilters_matchingOnly(dirPath) ==
  Cardinality({i \in 1..Len(dirPath) :
                 /\ isFilteredDirectory(dirPath[i])
                 /\ matchDirectoryFilters(dirPath[i], Context)}) <= 1

\* two filtered components on one path
validateNoNestedFilters(dirPath) ==
  Cardinality({i \in 1..Len(dirPath) : isFilteredDirectory(dirPath[i])}) <= 1

\* (variant: the duplicate test looks at the source paths)
validateNoDirectoryConflicts_bySource(operations) ==
  \A i, j \in 1..Len(operations) :
    i # j => operations[i].sourcePath # operations[j].sourcePath

validateNoDirectoryConflicts(operations) ==
  \A i, j \in 1..Len(operations) :
    i # j => operations[i].outputPath # operations[j].outputPath

\* the loop of scanForDirectoryOperations: [error, operations]
RECURSIVE ScanDirs(_, _, _)
ScanDirs(dirs, context, operations) ==
  IF dirs = <<>> THEN [error |-> "none", operations |-> operations]
  ELSE LET dir == Head(dirs)
           dirname_ == basename(dir)
       IN IF ~isFilteredDirectory(dirname_) THEN ScanDirs(Tail(dirs), context, operations)
          ELSE IF isBaseDirectory(dirname_)
          THEN [error |-> "BaseDirectoryNotSupportedError", operations |-> <<>>]
          ELSE IF ~validateNoNestedFilters(dir)
          THEN [error |-> "NestedFilteredDirectoryError", operations |-> <<>>]
          ELSE IF ~matchDirectoryFilters(dirname_, context)
          THEN ScanDirs(Tail(dirs), context, operations)
          ELSE ScanDirs(Tail(dirs), context,
                 Append(operations,
                        [sourcePath |-> dir,
                         outputPath |-> Append(dirname(dir), getBaseDirectoryName(dirname_)),
                         type |-> "directory"]))

scanForDirectoryOperations(f, machineName) ==
  LET r == ScanDirs(potentialDirs(f), Context, <<>>)
  IN IF r.error # "none" THEN r
     ELSE IF ~validateNoDirectoryConflicts(r.operations)
     THEN [error |-> "DirectoryConflictError", operations |-> <<>>]
     ELSE r

getFilteredDirectoryPaths(f) ==
  {p \in DOMAIN f : f[p].kind = "dir" /\ HasBraces(basename(p))
                      /\ isFilteredDirectory(basename(p))}

\* a variant that takes only the directory itself for inside
isInsideFilteredDirectory_itselfOnly(filePath, filteredDirs) ==
  \E dir \in filteredDirs : normalize(filePath) = normalize(dir)

isInsideFilteredDirectory(filePath, filteredDirs) ==
  \E dir \in filteredDirs : IsAtOrUnder(normalize(filePath), normalize(dir))

\* a file output strictly beneath a directory output
validateNoFileDirectoryConflicts(mergeOperations, directoryOperations) ==
  \A i \in 1..Len(directoryOperations), j \in 1..Len(mergeOperations) :
    ~IsAncestor(normalize(directoryOperations[i].outputPath),
                normalize(mergeOperations[j].outputPath))

\* [error, mergeOperations, directoryOperations]
scanAllOperations(f, machineName) ==
  LET filteredDirs == getFilteredDirectoryPaths(f)
      dirScan == scanForDirectoryOperations(f, machineName)
      allMergeOperations == scanForMergeOperations(f, machineName)
      Kept(op) ==
        /\ ~(op.machinePath # <<>> /\ isInsideFilteredDirectory(op.machinePath, filteredDirs))
        /\ ~(op.basePath # <<>> /\ isInsideFilteredDirectory(op.basePath, filteredDirs))
      mergeOperations == SelectSeq(allMergeOperations, Kept)
      Rejected(e) == [error |-> e, mergeOperations |-> <<>>, directoryOperations |-> <<>>]
  IN IF dirScan.error # "none" THEN Rejected(dirScan.error)
     ELSE IF ~validateNoFileDirectoryConflicts(mergeOperations, dirScan.operations)
     THEN Rejected("FileDirectoryConflictError")
     ELSE [error |-> "none", mergeOperations |-> mergeOperations,
           directoryOperations |-> dirScan.operations]

----------------------------------------------------------------------------
(* Cleanup runs: the disks and output lists the calls are made with *)

Content1 == "c1"
Content2 == "c2"
PA == <<Nm("a", ".json")>>
PD == <<Nm("d", "")>>
PDA == <<Nm("d", ""), Nm("a", ".json")>>
PADel == getDeletedPath(PA)
PDDotA == <<Nm("d", ""), DotSeg, Nm("a", ".json")>>

\* output paths a caller may pass, in the spelling it passes them:
\* a.json, a.json.permachine-deleted, d, d/./a.json
CandidateOutputs == {PA, PADel, PD, PDDotA}

Range(s) == {s[i] : i \in 1..Len(s)}

\* the duplicate-free sequences over S of length at most n
RECURSIVE SeqsUpTo(_, _)
SeqsUpTo(S, n) ==
  IF n = 0 THEN {<<>>}
  ELSE LET shorter == SeqsUpTo(S, n - 1)
           longest == {t \in shorter : Len(t) = n - 1}
       IN shorter \cup UNION {{Append(t, x) : x \in S \ Range(t)} : t \in longest}

OutputLists == SeqsUpTo(CandidateOutputs, MaxOutputs)

Tree(entries) == [p \in {e[1] : e \in entries} |-> (CHOOSE e \in entries : e[1] = p)[2]]

InitialDisks ==
  {Tree(a \cup ad \cup d) :
     a \in {{}, {<<PA, FileNode(Content1)>>}},
     ad \in {{}, {<<PADel, FileNode(Content2)>>},
             {<<PADel, DirNode>>, <<PADel \o <<Nm("x", ".txt")>>, FileNode(Content2)>>}},
     d \in {{}, {<<PD, DirNode>>}, {<<PD, DirNode>>, <<PDA, FileNode(Content1)>>}}}

NoCall == [currentOutputs |-> <<>>, failing |-> {}]

PathSet(outputs) == {normalize(outputs[i]) : i \in 1..Len(outputs)}

Renamed(result) == Range(result.renamedFiles) \cup Range(result.renamedDirectories)

\* the stale paths of a call that are on disk when the call starts
StaleOnDisk(f, man, currentOutputs) ==
  IF ~loadManifest(man) THEN {}
  ELSE {p \in PathSet(man.outputs) \ PathSet(currentOutputs) : pathExists(f, p)}

\* no exported function is called on its own in this specification
NoDirectCall == <<>>

\* no concurrent calls and no watcher take part in this specification
NoConcurrentRuns ==
  /\ proc = <<>>
  /\ start = <<>>

WatchOff ==
  /\ wphase = "off"
  /\ wstate = <<>>
  /\ debounceTimers = {}
  /\ timers = {}
  /\ adding = <<>>
  /\ inflight = <<>>
  /\ obs = <<>>

InitCleanup ==
  /\ fs \in InitialDisks
  /\ manifest \in {NoManifestFile,
                   [present |-> TRUE, version |-> 2, outputs |-> <<PA>>, lastRun |-> 0]}
  /\ runs = 0
  /\ call = NoCall
  /\ cleanupResult = EmptyCleanupResult
  /\ sameAsPrev = FALSE
  /\ prevRenamed = FALSE
  /\ phase = "idle"
  /\ scanResult = [error |-> "none", mergeOperations |-> <<>>, directoryOperations |-> <<>>]
  /\ pass = 0
  /\ mergeResults = <<>>
  /\ dirResults = <<>>
  /\ firstPassOk = FALSE
  /\ writes = 0
  /\ NoConcurrentRuns
  /\ WatchOff
  /\ applied = NoDirectCall

\* one call cleanupStaleOutputs(currentOutputs, cwd)
Reconcile ==
  /\ runs < MaxRuns
  /\ \E currentOutputs \in OutputLists :
     \E failing \in SUBSET StaleOnDisk(fs, manifest, currentOutputs) :
       LET r == cleanupStaleOutputs(fs, manifest, currentOutputs, failing, runs + 1) IN
       /\ fs' = r.fs
       /\ manifest' = r.manifest
       /\ cleanupResult' = r.result
       /\ call' = [currentOutputs |-> currentOutputs, failing |-> failing]
       /\ sameAsPrev' = (runs >= 1 /\ PathSet(currentOutputs) = PathSet(call.currentOutputs))
       /\ prevRenamed' = (Renamed(cleanupResult) # {})
       /\ runs' = runs + 1
  /\ UNCHANGED <<pipelineVars, concVars, watchVars, applied>>

NextCleanup == Reconcile

SpecCleanup == InitCleanup /\ [][NextCleanup]_vars

----------------------------------------------------------------------------
(* Pipeline runs: the source trees a scan and its executions start from *)

Overlay(stem, filters, ext) == [Nm(stem, ext) EXCEPT !.filters = filters]
Base(stem, ext) == [Nm(stem, ext) EXCEPT !.mark = "dotbase"]
Legacy(stem, machineName, ext) == [Nm(stem, ext) EXCEPT !.lm = machineName]

OsLinux == <<Flt("os", "=", <<"linux">>)>>
OsWindows == <<Flt("os", "=", <<"windows">>)>>
ThisMachine == <<Flt("machine", "=", <<MachineName>>)>>
OtherMachine == <<Flt("machine", "=", <<"other">>)>>

BaseDoc == JObj(<<KV("a", JNum("1")), KV("list", JArr(<<JStr("x")>>))>>)
OverlayDoc == JObj(<<KV("a", JNum("2")), KV("list", JArr(<<JStr("x"), JStr("y")>>))>>)
OtherDoc == JObj(<<KV("b", JNum("3"))>>)
NonPrimitiveDoc == JObj(<<KV("list", JArr(<<JObj(<<>>)>>))>>)

File(p, fmt, val) == <<p, FileNode(Text(fmt, val))>>
Dir(p) == <<p, DirNode>>

SkillsM1 == <<Overlay("skills", ThisMachine, "")>>
Skills == <<Nm("skills", "")>>
DocsWin == <<Overlay("docs", OsWindows, "")>>
ConfigsPh == <<[Nm("configs", "") EXCEPT !.mark = "phbase"]>>   \* configs.{base}
JiraBase == <<Base("jira", "")>>                                \* jira.base

\* each candidate is the set of entries one source (or one earlier output) adds
SourceCandidates ==
  { {File(<<Base("config", ".json")>>, "json", BaseDoc)},
    {File(<<Base("config", ".json")>>, "bad", "")},
    {File(<<Overlay("config", OsLinux, ".json")>>, "jsonc", OverlayDoc)},
    {File(<<Overlay("config", OsLinux, ".json")>>, "json", NonPrimitiveDoc)},
    {File(<<Overlay("config", ThisMachine, ".json")>>, "json", OtherDoc)},
    {File(<<Overlay("config", OtherMachine, ".json")>>, "json", OtherDoc)},
    {File(<<Legacy("config", MachineName, ".json")>>, "json", OtherDoc)},
    {File(<<Nm("config", ".json")>>, "json", BaseDoc)},
    {File(<<Nm("config", ".json")>>, "json", deepMerge(BaseDoc, OverlayDoc))},
    {Dir(<<Nm("config", ".json")>>)},
    {File(<<Base(".env", "")>>, "env", <<KV("A", "1")>>)},
    {File(<<Overlay(".env", ThisMachine, "")>>, "env", <<KV("A", "2"), KV("B", "3")>>)},
    {Dir(<<Overlay(".env", OsLinux, "")>>),
     File(<<Overlay(".env", OsLinux, ""), Nm("x", ".txt")>>, "text", "t1")},
    {Dir(SkillsM1), File(Append(SkillsM1, Nm("a", ".txt")), "text", "t1")},
    {Dir(SkillsM1),
     File(Append(SkillsM1, Overlay("in", OsLinux, ".json")), "json", OtherDoc)},
    {Dir(SkillsM1), Dir(Append(SkillsM1, Overlay("deep", OsLinux, ""))),
     File(SkillsM1 \o <<Overlay("deep", OsLinux, ""), Nm("b", ".txt")>>, "text", "t1")},
    {Dir(<<Overlay("skills", OsLinux, "")>>),
     File(<<Overlay("skills", OsLinux, ""), Nm("a", ".txt")>>, "text", "t2")},
    {Dir(<<Overlay("docs", OsWindows, "")>>),
     File(<<Overlay("docs", OsWindows, ""), Nm("a", ".txt")>>, "text", "t1")},
    {Dir(DocsWin), Dir(Append(DocsWin, Nm("sub", ""))),
     Dir(DocsWin \o <<Nm("sub", ""), Overlay("in", OsLinux, "")>>),
     File(DocsWin \o <<Nm("sub", ""), Overlay("in", OsLinux, ""), Nm("c", ".txt")>>,
          "text", "t1")},
    {Dir(ConfigsPh), File(Append(ConfigsPh, Nm("settings", ".json")), "json", BaseDoc)},
    {Dir(JiraBase), File(Append(JiraBase, Nm("a", ".txt")), "text", "t1")},
    {Dir(Skills), File(Append(Skills, Nm("a", ".txt")), "text", "t1")},
    {Dir(Skills), Dir(Append(Skills, Nm("a", ".txt")))},
    {Dir(Skills), File(Append(Skills, Overlay("cfg", OsLinux, ".json")), "json", OtherDoc)},
    {File(Skills, "text", "t1")} }

MaxSources == 3   \* candidates a source tree is put together from

RECURSIVE SubsetsUpTo(_, _)
SubsetsUpTo(S, n) ==
  IF n = 0 THEN {{}}
  ELSE LET smaller == SubsetsUpTo(S, n - 1)
       IN smaller \cup UNION {{T \cup {x} : x \in S \ T} : T \in smaller}

\* no path is given two different nodes
Consistent(entries) == \A e1, e2 \in entries : e1[1] = e2[1] => e1 = e2

SourceTrees ==
  {Tree(UNION T) : T \in {U \in SubsetsUpTo(SourceCandidates, MaxSources) :
                            Consistent(UNION U)}}

NoScanResult == [error |-> "none", mergeOperations |-> <<>>, directoryOperations |-> <<>>]

\* the loops of performAllMerges and performAllDirectoryCopies go on while
\* operations are left
MergeLoopRuns_untilFailure(operations, results) ==
  /\ Len(results) < Len(operations)
  /\ \A i \in 1..Len(results) : results[i].success

MergeLoopRuns(operations, results) == Len(results) < Len(operations)

CopyLoopRuns(operations, results) == Len(results) < Len(operations)

Init ==
  /\ fs \in SourceTrees
  /\ phase = "idle"
  /\ scanResult = NoScanResult
  /\ pass = 0
  /\ mergeResults = <<>>
  /\ dirResults = <<>>
  /\ firstPassOk = FALSE
  /\ writes = 0
  /\ manifest = NoManifestFile
  /\ runs = 0
  /\ call = NoCall
  /\ cleanupResult = EmptyCleanupResult
  /\ sameAsPrev = FALSE
  /\ prevRenamed = FALSE
  /\ NoConcurrentRuns
  /\ WatchOff
  /\ applied = NoDirectCall

\* scanAllOperations(machineName, cwd): a ScanResult, or a structural error
Scan ==
  /\ phase = "idle"
  /\ LET r == scanAllOperations(fs, MachineName)
     IN /\ scanResult' = r
        /\ phase' = IF r.error = "none" THEN "executing" ELSE "rejected"
        /\ pass' = IF r.error = "none" THEN 1 ELSE 0
  /\ UNCHANGED <<fs, mergeResults, dirResults, firstPassOk, writes>>
  /\ UNCHANGED <<manifest, runs, call, cleanupResult, sameAsPrev, prevRenamed>>
  /\ UNCHANGED <<concVars, watchVars, applied>>

\* one iteration of performAllMerges
ExecMerge ==
  /\ phase = "executing"
  /\ MergeLoopRuns(scanResult.mergeOperations, mergeResults)
  /\ LET operation == scanResult.mergeOperations[Len(mergeResults) + 1]
     IN \E writeFails \in (IF AttemptsWrite(fs, operation) THEN BOOLEAN ELSE {FALSE}) :
          LET r == performMerge(fs, operation, writeFails)
          IN /\ fs' = r.fs
             /\ mergeResults' = Append(mergeResults, r.result)
             /\ writes' = writes + r.wrote
  /\ UNCHANGED <<phase, scanResult, pass, dirResults, firstPassOk>>
  /\ UNCHANGED <<manifest, runs, call, cleanupResult, sameAsPrev, prevRenamed>>
  /\ UNCHANGED <<concVars, watchVars, applied>>

\* one iteration of performAllDirectoryCopies, run after the merges
ExecDir ==
  /\ phase = "executing"
  /\ ~MergeLoopRuns(scanResult.mergeOperations, mergeResults)
  /\ CopyLoopRuns(scanResult.directoryOperations, dirResults)
  /\ LET operation == scanResult.directoryOperations[Len(dirResults) + 1]
         r == performDirectoryCopy(fs, operation)
     IN /\ fs' = r.fs
        /\ dirResults' = Append(dirResults, r.result)
        /\ writes' = writes + r.wrote
  /\ UNCHANGED <<phase, scanResult, pass, mergeResults, firstPassOk>>
  /\ UNCHANGED <<manifest, runs, call, cleanupResult, sameAsPrev, prevRenamed>>
  /\ UNCHANGED <<concVars, watchVars, applied>>

AllSucceeded(results) == \A i \in 1..Len(results) : results[i].success

\* the same ScanResult is executed again, the sources untouched
SecondPass ==
  /\ phase = "executing"
  /\ pass = 1
  /\ ~MergeLoopRuns(scanResult.mergeOperations, mergeResults)
  /\ ~CopyLoopRuns(scanResult.directoryOperations, dirResults)
  /\ pass' = 2
  /\ firstPassOk' = (AllSucceeded(mergeResults) /\ AllSucceeded(dirResults))
  /\ mergeResults' = <<>>
  /\ dirResults' = <<>>
  /\ writes' = 0
  /\ UNCHANGED <<fs, phase, scanResult>>
  /\ UNCHANGED <<manifest, runs, call, cleanupResult, sameAsPrev, prevRenamed>>
  /\ UNCHANGED <<concVars, watchVars, applied>>

\* both loops of the second execution have ended and returned their results
Finish ==
  /\ phase = "executing"
  /\ pass = 2
  /\ ~MergeLoopRuns(scanResult.mergeOperations, mergeResults)
  /\ ~CopyLoopRuns(scanResult.directoryOperations, dirResults)
  /\ phase' = "done"
  /\ UNCHANGED <<fs, scanResult, pass, mergeResults, dirResults, firstPassOk, writes>>
  /\ UNCHANGED <<manifest, runs, call, cleanupResult, sameAsPrev, prevRenamed>>
  /\ UNCHANGED <<concVars, watchVars, applied>>

Next == Scan \/ ExecMerge \/ ExecDir \/ SecondPass \/ Finish

Spec == Init /\ [][Next]_vars

----------------------------------------------------------------------------
(* Properties of the cleanup *)

\* all stale paths of a call: listed in the manifest, not in currentOutputs
StalePaths(man, currentOutputs) ==
  IF ~loadManifest(man) THEN {} ELSE PathSet(man.outputs) \ PathSet(currentOutputs)

\* p was soft-deleted by a call that took the disk from f to f2 and returned res
SoftDeleted(f, f2, res, p) ==
  /\ ~pathExists(f2, p)
  /\ pathExists(f2, getDeletedPath(p))
  /\ SubTree(f2, getDeletedPath(p)) = SubTree(f, p)
  /\ IF IsDirectory(f, p) THEN p \in Range(res.renamedDirectories)
                           ELSE p \in Range(res.renamedFiles)

\* p and q do not touch each other's trees or soft-deleted forms
Unrelated(p, q) ==
  /\ ~IsAncestor(p, q)
  /\ ~IsAncestor(q, p)
  /\ ~IsAtOrUnder(p, getDeletedPath(q))
  /\ ~IsAtOrUnder(q, getDeletedPath(p))

\* C1 as stated: every path that is in the previous manifest, not in
\* currentOutputs and on disk, and whose rename does not fail, is soft-deleted:
\* gone from its path, present with its former content under the suffixed
\* path, and reported in renamedFiles or renamedDirectories.
C1_EveryStalePathSoftDeleted ==
  [][\A p \in StaleOnDisk(fs, manifest, call'.currentOutputs) \ call'.failing :
       SoftDeleted(fs, fs', cleanupResult', p)]_vars

\* C1 amended: the same, for the stale paths that are unrelated to every other
\* stale path of the call (no other stale path is an ancestor or a descendant
\* of it, and neither lies at or beneath the other's soft-deleted form).
C1_UnrelatedStalePathSoftDeleted ==
  [][\A p \in StaleOnDisk(fs, manifest, call'.currentOutputs) \ call'.failing :
       (\A q \in StalePaths(manifest, call'.currentOutputs) \ {p} : Unrelated(p, q))
         => SoftDeleted(fs, fs', cleanupResult', p)]_vars

\* a call has soft-deleted a file and a directory
C1_Witness ==
  /\ \E p \in Range(cleanupResult.renamedFiles) :
       ~pathExists(fs, p) /\ pathExists(fs, getDeletedPath(p))
  /\ \E p \in Range(cleanupResult.renamedDirectories) :
       ~pathExists(fs, p) /\ IsDirectory(fs, getDeletedPath(p))

\* C4: after every call the manifest lists exactly the currentOutputs the call
\* was given, whether or not a manifest existed and whether or not a rename
\* happened or failed.
C4_ManifestIsCurrentOutputs ==
  runs >= 1 => loadManifest(manifest) /\ manifest.outputs = call.currentOutputs

\* a call in which a rename failed and another one succeeded, given an
\* output in a spelling that is not normalized
C4_Witness ==
  /\ cleanupResult.errors # <<>>
  /\ Renamed(cleanupResult) # {}
  /\ manifest.outputs = call.currentOutputs
  /\ \E i \in 1..Len(call.currentOutputs) :
       normalize(call.currentOutputs[i]) # call.currentOutputs[i]

\* C5: a run that is given the same outputs as the run before it renames
\* nothing; so a path that went stale is renamed once, by the first run that
\* no longer lists it.
C5_SameOutputsNoRenames ==
  sameAsPrev => Renamed(cleanupResult) = {}

\* run 2 has renamed a stale path and run 3 was given the outputs of run 2
C5_Witness ==
  /\ runs >= 3
  /\ sameAsPrev
  /\ prevRenamed
  /\ Renamed(cleanupResult) = {}

\* C6 as stated: a call never renames, removes or modifies a path that is in
\* its currentOutputs.
C6_CurrentOutputsKept ==
  [][\A p \in PathSet(call'.currentOutputs) :
       pathExists(fs, p) => pathExists(fs', p) /\ SubTree(fs', p) = SubTree(fs, p)]_vars

----------------------------------------------------------------------------
(* Properties of the scan and of the executors *)

\* C2: a second execution of the same ScanResult, after a first one in which
\* every operation succeeded, reports changed=false for every merge and every
\* directory copy and writes no file
C2_SecondPassChangesNothing ==
  (pass = 2 /\ firstPassOk) =>
    /\ \A i \in 1..Len(mergeResults) : ~mergeResults[i].changed
    /\ \A i \in 1..Len(dirResults) : ~dirResults[i].changed
    /\ writes = 0

OutputPaths(result) ==
  [i \in 1..(Len(result.mergeOperations) + Len(result.directoryOperations)) |->
     IF i <= Len(result.mergeOperations)
     THEN normalize(result.mergeOperations[i].outputPath)
     ELSE normalize(result.directoryOperations[i - Len(result.mergeOperations)].outputPath)]

\* C3: the operations of a ScanResult the scan returned, merges and directory
\* copies together, have pairwise different output paths
C3_OutputPathsDistinct ==
  phase = "executing" =>
    \A i, j \in DOMAIN OutputPaths(scanResult) :
      i # j => OutputPaths(scanResult)[i] # OutputPaths(scanResult)[j]

\* the step is one performMerge of the running pass; op is what it executed
MergeStep == Len(mergeResults') = Len(mergeResults) + 1

StepOperation == scanResult.mergeOperations[Len(mergeResults) + 1]

StepResult == mergeResults'[Len(mergeResults')]

\* performMerge has sources to read and computes a result for the output
HasMergedContent(f, operation) ==
  /\ getAdapter(operation.outputPath) # "none"
  /\ fileExists(f, operation.basePath) \/ fileExists(f, operation.machinePath)
  /\ ComputeMerged(f, operation, getAdapter(operation.outputPath)).error = "none"

MergedFor(f, operation) ==
  ComputeMerged(f, operation, getAdapter(operation.outputPath)).content

\* C7: when performMerge has computed the output's content: an output file that
\* already holds exactly that content is not written and changed=false; an
\* output that is absent or holds something else is written with it and
\* changed=true, unless the disk refuses the write
C7_WriteOnlyOnChange ==
  [][(MergeStep /\ HasMergedContent(fs, StepOperation)
        /\ ~IsDirectory(fs, StepOperation.outputPath))
       => LET out == normalize(StepOperation.outputPath)
              merged == MergedFor(fs, StepOperation)
          IN IF pathExists(fs, out) /\ fs[out].content = merged
             THEN fs' = fs /\ writes' = writes
                    /\ StepResult.success /\ ~StepResult.changed
             ELSE \/ /\ StepResult.error = "WriteError"
                     /\ fs' = fs
                  \/ /\ StepResult.success /\ StepResult.changed
                     /\ writes' = writes + 1
                     /\ pathExists(fs', out) /\ fs'[out].content = merged]_vars

\* both branches of C7 have been taken in one pass: an output left alone
\* because it was identical, and an output written
C7_Witness ==
  \E i, j \in 1..Len(mergeResults) :
    /\ mergeResults[i].success /\ ~mergeResults[i].changed
    /\ mergeResults[j].success /\ mergeResults[j].changed
    /\ writes >= 1

\* both sources exist and parsing one of them, or merging them, throws
ParseOrMergeFails(f, operation) ==
  /\ getAdapter(operation.outputPath) # "none"
  /\ fileExists(f, operation.basePath) /\ fileExists(f, operation.machinePath)
  /\ ComputeMerged(f, operation, getAdapter(operation.outputPath)).error
       \in {"ParseError", "ArrayMergeError"}

\* C8: a performMerge whose parsing or merging fails returns success=false
\* with the error, and leaves the output path as it was: not created, not
\* emptied, not modified
C8_FailedMergeLeavesOutput ==
  [][(MergeStep /\ ParseOrMergeFails(fs, StepOperation))
       => /\ ~StepResult.success /\ ~StepResult.changed
          /\ StepResult.error \in {"ParseError", "ArrayMergeError"}
          /\ writes' = writes
          /\ SubTree(fs', normalize(StepOperation.outputPath))
               = SubTree(fs, normalize(StepOperation.outputPath))]_vars

\* a merge has failed on a malformed payload or on an array of non-primitives
\* while a file was in place at its output path
C8_Witness ==
  \E i \in 1..Len(mergeResults) :
    /\ mergeResults[i].error \in {"ParseError", "ArrayMergeError"}
    /\ pathExists(fs, mergeResults[i].operation.outputPath)

ResultsInOrder ==
  /\ Len(mergeResults) <= Len(scanResult.mergeOperations)
  /\ \A i \in 1..Len(mergeResults) :
       mergeResults[i].operation = scanResult.mergeOperations[i]
  /\ Len(dirResults) <= Len(scanResult.directoryOperations)
  /\ \A i \in 1..Len(dirResults) :
       dirResults[i].operation = scanResult.directoryOperations[i]

BatchDone ==
  /\ Len(mergeResults) = Len(scanResult.mergeOperations)
  /\ Len(dirResults) = Len(scanResult.directoryOperations)

\* C9: the results collected are those of the first operations of the batch,
\* one each and in order; performAllMerges has returned (the directory copies
\* have begun, or the run is done) only with a result for every merge
\* operation, and the run is done only with a result for every directory
\* operation too, whatever failed on the way
C9_FailureDoesNotBlock ==
  /\ phase \in {"executing", "done"} => ResultsInOrder
  /\ (phase = "done" \/ Len(dirResults) > 0) =>
       Len(mergeResults) = Len(scanResult.mergeOperations)
  /\ phase = "done" => BatchDone

\* a merge failed and the merge after it was executed; a directory copy failed
\* after that
C9_Witness ==
  /\ phase = "done"
  /\ \E i, j \in 1..Len(mergeResults) : i < j /\ ~mergeResults[i].success
  /\ \E i \in 1..Len(dirResults) : ~dirResults[i].success

\* the overlays of base file b: files next to it that resolve to its output
OverlaysOf(f, b) ==
  {p \in Files(f) :
     /\ ~isBaseFile(basename(p))
     /\ hasFilters(basename(p))
     /\ createMergeOperation(p, MachineName) # NoOperation
     /\ createMergeOperation(p, MachineName).outputPath
          = createBaseOnlyMergeOperation(b).outputPath}

BaseSources(f) ==
  {b \in Files(f) : /\ basename(b).mark = "dotbase"
                    /\ createBaseOnlyMergeOperation(b) # NoOperation
                    /\ ~isInsideFilteredDirectory(b, getFilteredDirectoryPaths(f))}

\* C10: right after a scan that returned, every base source whose overlays all
\* fail to match the context has a base-only operation in the result
C10_UnmatchedOverlaysKeepBase ==
  (phase = "executing" /\ pass = 1 /\ mergeResults = <<>> /\ dirResults = <<>>) =>
    \A b \in BaseSources(fs) :
      (/\ OverlaysOf(fs, b) # {}
       /\ \A p \in OverlaysOf(fs, b) : ~matchFilters(basename(p), Context))
        => \E i \in 1..Len(scanResult.mergeOperations) :
             /\ scanResult.mergeOperations[i].basePath = b
             /\ scanResult.mergeOperations[i].machinePath = <<>>

----------------------------------------------------------------------------
(* Structural errors of the scan *)

\* C11: a ScanResult the scan returned has no merge operation whose output
\* path equals the output path of one of its directory copies or lies
\* beneath it (such a tree makes the scan fail instead)
C11_NoFileOutputAtOrUnderDirOutput ==
  phase = "executing" =>
    \A i \in 1..Len(scanResult.directoryOperations),
       j \in 1..Len(scanResult.mergeOperations) :
      ~IsAtOrUnder(normalize(scanResult.mergeOperations[j].outputPath),
                   normalize(scanResult.directoryOperations[i].outputPath))

\* the directories of f whose name carries a filter group
FilteredDirs(f) ==
  {p \in DOMAIN f : f[p].kind = "dir" /\ isFilteredDirectory(basename(p))}

DirOutputPath(dir) == Append(dirname(dir), getBaseDirectoryName(basename(dir)))

\* two filtered directories that match the context and resolve to one output
TwoMatchingDirsOneOutput(f) ==
  \E d1, d2 \in FilteredDirs(f) :
    /\ d1 # d2
    /\ matchDirectoryFilters(basename(d1), Context)
    /\ matchDirectoryFilters(basename(d2), Context)
    /\ DirOutputPath(d1) = DirOutputPath(d2)

StructuralErrors ==
  {"BaseDirectoryNotSupportedError", "NestedFilteredDirectoryError",
   "DirectoryConflictError", "FileDirectoryConflictError"}

\* C12: when two filtered directories that both match the context resolve to
\* the same output path, the scan ends with a structural error, returns no
\* operations and nothing on the disk is written
C12_TwoMatchingDirsRejected ==
  [][TwoMatchingDirsOneOutput(fs) =>
       /\ phase' = "rejected"
       /\ scanResult'.error \in StructuralErrors
       /\ scanResult'.mergeOperations = <<>>
       /\ scanResult'.directoryOperations = <<>>
       /\ fs' = fs
       /\ writes' = 0]_vars

C12_Witness ==
  /\ phase = "rejected"
  /\ scanResult.error = "DirectoryConflictError"
  /\ TwoMatchingDirsOneOutput(fs)

\* a filtered directory with another filtered directory somewhere beneath it
NestedFilteredDirs(f) ==
  {d \in FilteredDirs(f) : \E e \in FilteredDirs(f) : IsAncestor(d, e)}

\* C13: when a filtered directory, matching the context or not, has another
\* filtered directory as a direct or indirect child, the scan ends with a
\* structural error and nothing on the disk is written
C13_NestedFilteredDirsRejected ==
  [][NestedFilteredDirs(fs) # {} =>
       /\ phase' = "rejected"
       /\ scanResult'.error \in StructuralErrors
       /\ scanResult'.mergeOperations = <<>>
       /\ scanResult'.directoryOperations = <<>>
       /\ fs' = fs
       /\ writes' = 0]_vars

\* rejected for an outer directory that does not match the context
C13_Witness ==
  /\ phase = "rejected"
  /\ scanResult.error = "NestedFilteredDirectoryError"
  /\ \E d \in NestedFilteredDirs(fs) : ~matchDirectoryFilters(basename(d), Context)

\* the directories of f marked as a base source
BaseDirs(f) == {p \in DOMAIN f : f[p].kind = "dir" /\ isBaseDirectory(basename(p))}

\* C14: when the tree holds a directory marked as a base source (a .base
\* suffix or the {base} placeholder), the scan ends with a structural error,
\* yields no operation and nothing on the disk is written
C14_BaseDirsRejected ==
  [][BaseDirs(fs) # {} =>
       /\ phase' = "rejected"
       /\ scanResult'.error \in StructuralErrors
       /\ scanResult'.mergeOperations = <<>>
       /\ scanResult'.directoryOperations = <<>>
       /\ fs' = fs
       /\ writes' = 0]_vars

\* the overlay files of f, outside filtered directories, that carry filters,
\* match the context and resolve to the output path out
MatchingOverlays(f, out) ==
  {p \in Files(f) :
     /\ ~isBaseFile(basename(p))
     /\ hasFilters(basename(p))
     /\ matchFilters(basename(p), Context)
     /\ ~isInsideFilteredDirectory(p, getFilteredDirectoryPaths(f))
     /\ createMergeOperation(p, MachineName) # NoOperation
     /\ createMergeOperation(p, MachineName).outputPath = out}

OverlayOutputs(f) ==
  {createMergeOperation(p, MachineName).outputPath :
     p \in {q \in Files(f) : createMergeOperation(q, MachineName) # NoOperation}}

\* C15: when two or more overlays with the same canonical name all match the
\* context, the scan ends with a structural error and emits no operation
C15_AmbiguousOverlaysRejected ==
  [][(phase = "idle" /\ \E out \in OverlayOutputs(fs) :
                           Cardinality(MatchingOverlays(fs, out)) >= 2) =>
       /\ phase' = "rejected"
       /\ scanResult'.mergeOperations = <<>>]_vars

----------------------------------------------------------------------------
(* Two cleanupStaleOutputs calls against one root.  Each call is a chain of  *)
(* awaits: loadManifest, then pathExists and renameToDeleted for each stale *)
(* path, then saveManifest; the other call may run between any two of them  *)

Runs == {"A", "B"}

ConcurrentOutputLists == {o \in OutputLists : Range(o) \subseteq {PA, PD}}

InitConcurrent ==
  /\ fs \in InitialDisks
  /\ manifest \in {NoManifestFile} \cup {saveManifest(o, 0) : o \in ConcurrentOutputLists}
  /\ proc \in [Runs -> {[pc |-> "load", currentOutputs |-> o, staleOutputs |-> <<>>,
                         result |-> EmptyCleanupResult] : o \in ConcurrentOutputLists}]
  /\ start = [fs |-> fs, manifest |-> manifest]
  /\ runs = 0
  /\ call = NoCall
  /\ cleanupResult = EmptyCleanupResult
  /\ sameAsPrev = FALSE
  /\ prevRenamed = FALSE
  /\ phase = "idle"
  /\ scanResult = [error |-> "none", mergeOperations |-> <<>>, directoryOperations |-> <<>>]
  /\ pass = 0
  /\ mergeResults = <<>>
  /\ dirResults = <<>>
  /\ firstPassOk = FALSE
  /\ writes = 0
  /\ WatchOff
  /\ applied = NoDirectCall

ConcurrentRest ==
  <<start, call, cleanupResult, sameAsPrev, prevRenamed, pipelineVars, watchVars,
    applied>>

\* const previousManifest = await loadManifest(cwd), and the stale list
LoadStep(r) ==
  /\ proc[r].pc = "load"
  /\ proc' = [proc EXCEPT ![r].pc = "loop",
                          ![r].staleOutputs =
                             IF loadManifest(manifest)
                             THEN staleOutputsOf(manifest.outputs, proc[r].currentOutputs)
                             ELSE <<>>]
  /\ UNCHANGED <<fs, manifest, runs>>
  /\ UNCHANGED ConcurrentRest

\* one iteration of the loop over staleOutputs
RenameStep(r) ==
  /\ proc[r].pc = "loop"
  /\ proc[r].staleOutputs # <<>>
  /\ LET loop == RenameStaleOutputs(fs, <<Head(proc[r].staleOutputs)>>, {}, proc[r].result)
     IN /\ fs' = loop.fs
        /\ proc' = [proc EXCEPT ![r].staleOutputs = Tail(@), ![r].result = loop.result]
  /\ UNCHANGED <<manifest, runs>>
  /\ UNCHANGED ConcurrentRest

\* await saveManifest(cwd, currentOutputs); return result
SaveStep(r) ==
  /\ proc[r].pc = "loop"
  /\ proc[r].staleOutputs = <<>>
  /\ manifest' = saveManifest(proc[r].currentOutputs, runs + 1)
  /\ runs' = runs + 1
  /\ proc' = [proc EXCEPT ![r].pc = "done"]
  /\ UNCHANGED fs
  /\ UNCHANGED ConcurrentRest

NextConcurrent == \E r \in Runs : LoadStep(r) \/ RenameStep(r) \/ SaveStep(r)

SpecConcurrent == InitConcurrent /\ [][NextConcurrent]_vars

SoftDeletedPaths(f) == {p \in DOMAIN f : isDeletedPath(p)}

\* what the two calls leave behind when first runs to its end before second
\* starts
Serial(first, second) ==
  LET r1 == cleanupStaleOutputs(start.fs, start.manifest,
                                proc[first].currentOutputs, {}, 1)
      r2 == cleanupStaleOutputs(r1.fs, r1.manifest, proc[second].currentOutputs, {}, 2)
  IN [outputs |-> r2.manifest.outputs, softDeleted |-> SoftDeletedPaths(r2.fs)]

\* C16: when two concurrent calls have both returned, the manifest and the
\* set of soft-deleted paths are those one of the two serial orders produces
C16_ConcurrentRunsSerializable ==
  (proc # <<>> /\ \A r \in Runs : proc[r].pc = "done") =>
    \E order \in {<<"A", "B">>, <<"B", "A">>} :
      /\ manifest.outputs = Serial(order[1], order[2]).outputs
      /\ SoftDeletedPaths(fs) = Serial(order[1], order[2]).softDeleted

----------------------------------------------------------------------------
(* Watch mode: src/core/watcher.ts, started and shut down by handleWatch of  *)
(* src/cli.ts.  Time is a clock of ticks; a timer is a record of the event  *)
(* loop that becomes due when its remaining ticks reach 0.                  *)

DebounceTicks == 2    \* options.debounce, in ticks
MaxEvents == 2        \* file events the watcher is sent
MaxTicks == 4         \* ticks the clock runs for

ConfigBase == <<Base("config", ".json")>>
ConfigM1 == <<Overlay("config", ThisMachine, ".json")>>
SkillsA == Append(SkillsM1, Nm("a", ".txt"))
SkillsB == Append(SkillsM1, Nm("b", ".txt"))

WatchCandidates ==
  { {File(ConfigBase, "json", BaseDoc), File(ConfigM1, "json", OtherDoc)},
    {File(<<Nm("config", ".json")>>, "json", deepMerge(BaseDoc, OtherDoc))},
    {Dir(SkillsM1), File(SkillsA, "text", "t1")} }

WatchTrees == {Tree(UNION T) : T \in SUBSET WatchCandidates}

\* the paths file events are about
EventPaths == {ConfigBase, ConfigM1, SkillsA, SkillsB}

\* what an editor may leave in the file at p
NewContents(f, p) ==
  IF basename(p).ext = ".json"
  THEN IF f[p].content = Text("json", OverlayDoc)
       THEN {Text("json", OtherDoc)} ELSE {Text("json", OverlayDoc)}
  ELSE IF f[p].content = Text("text", "t2")
       THEN {Text("text", "t1")} ELSE {Text("text", "t2")}

NoWatcherState == [operations |-> <<>>, directoryOperations |-> <<>>]

buildOperationMap(operations) ==
  LET ops == Range(operations)
      keys == {op.basePath : op \in {o \in ops : o.basePath # <<>>}}
                \cup {op.machinePath : op \in ops}
  IN [p \in keys |->
        SelectSeq(operations,
                  LAMBDA op : (op.basePath # <<>> /\ op.basePath = p) \/ op.machinePath = p)]

getWatchPaths(operations) ==
  {op.basePath : op \in {o \in Range(operations) : o.basePath # <<>>}}
    \cup {op.machinePath : op \in Range(operations)}

\* the files chokidar watches: the watch paths and all that lies in a source
\* directory (getDirectoryWatchPatterns: <sourcePath>/**/*)
InWatchPatterns(p, w) ==
  \/ p \in getWatchPaths(w.operations)
  \/ \E op \in Range(w.directoryOperations) : IsAncestor(normalize(op.sourcePath), p)

\* the first directory operation whose source holds changedPath, if any
findAffectedDirectoryOperation(changedPath, directoryOperations) ==
  LET hits == SelectSeq(directoryOperations,
                        LAMBDA op : IsAtOrUnder(normalize(changedPath),
                                                normalize(op.sourcePath)))
  IN IF hits = <<>> THEN <<>> ELSE <<Head(hits)>>

\* the executor calls handleFileChange(changedPath, state) awaits, in order
handleFileChange(changedPath, w) ==
  LET affectedDirOp == findAffectedDirectoryOperation(changedPath, w.directoryOperations)
      operationsByPath == buildOperationMap(w.operations)
      affectedOps == IF changedPath \in DOMAIN operationsByPath
                     THEN operationsByPath[changedPath] ELSE <<>>
  IN IF affectedDirOp # <<>>
     THEN <<[kind |-> "directory", operation |-> affectedDirOp[1]]>>
     ELSE [i \in 1..Len(affectedOps) |-> [kind |-> "merge", operation |-> affectedOps[i]]]

\* a call of handleFileChange starts; with nothing to do it returns at once
StartExecution(fl, changedPath, w) ==
  IF handleFileChange(changedPath, w) = <<>> THEN fl
  ELSE Append(fl, [path |-> changedPath, todo |-> handleFileChange(changedPath, w),
                   seen |-> <<>>])

\* what performMerge has got from fileExists and fs.readFile of its sources
SourcesRead(f, operation) ==
  [p \in {normalize(operation.basePath), normalize(operation.machinePath)} \cap DOMAIN f
     |-> f[p]]

\* the disk as the rest of performMerge goes by it: the sources as they were
\* read, everything else as it is now
DiskWithSourcesAs(f, operation, seen) ==
  LET sources == {normalize(operation.basePath), normalize(operation.machinePath)}
  IN [p \in (DOMAIN f \ sources) \cup DOMAIN seen |->
        IF p \in DOMAIN seen THEN seen[p] ELSE f[p]]

\* performMerge from the comparison with the output on: the disk afterwards
finishMerge(f, operation, seen) ==
  LET r == performMerge(DiskWithSourcesAs(f, operation, seen), operation, FALSE)
  IN IF r.wrote = 1
     THEN WriteFile(f, normalize(operation.outputPath),
                    r.fs[normalize(operation.outputPath)].content)
     ELSE f

setTimeout(ts, id, path, delay) ==
  ts \cup {[id |-> id, path |-> path, remaining |-> delay]}

clearTimeout(ts, ids) == {t \in ts : t.id \notin ids}

\* (variant: the timer already set for the path is left running)
onChange_keepsTimer(ts, dt, absolutePath, id) ==
  LET existingTimer == {e \in dt : e.path = absolutePath}
  IN [timers |-> setTimeout(ts, id, absolutePath, DebounceTicks),
      debounceTimers |-> (dt \ existingTimer) \cup {[path |-> absolutePath, id |-> id]}]

\* (variant: one timer for all paths, a change clears whatever is pending)
onChange_oneTimerForAll(ts, dt, absolutePath, id) ==
  [timers |-> setTimeout(clearTimeout(ts, {e.id : e \in dt}), id, absolutePath,
                         DebounceTicks),
   debounceTimers |-> {[path |-> absolutePath, id |-> id]}]

\* watcher.on('change', ...): the path's timer is cleared and a new one set
onChange(ts, dt, absolutePath, id) ==
  LET existingTimer == {e \in dt : e.path = absolutePath}
  IN [timers |-> setTimeout(clearTimeout(ts, {e.id : e \in existingTimer}), id,
                            absolutePath, DebounceTicks),
      debounceTimers |-> (dt \ existingTimer) \cup {[path |-> absolutePath, id |-> id]}]

\* the function startWatcher returns: every debounce timer is cleared
stopFunction(ts, dt) ==
  [timers |-> clearTimeout(ts, {e.id : e \in dt}), debounceTimers |-> {}]

ObsInit ==
  [now |-> 0, events |-> 0,
   quiet |-> [p \in EventPaths |-> DebounceTicks],   \* ticks since the last change event
   changes |-> [p \in EventPaths |-> 0],             \* change events
   bursts |-> [p \in EventPaths |-> 0],              \* bursts of change events
   debounced |-> [p \in EventPaths |-> 0],           \* executions a timer started
   started |-> 0, finished |-> 0,                    \* handleFileChange calls
   atStop |-> 0]                                     \* calls under way when stop was called

WatchRest ==
  <<manifest, runs, call, cleanupResult, sameAsPrev, prevRenamed, pipelineVars, concVars,
    applied>>

InitWatcher ==
  /\ fs \in WatchTrees
  /\ wphase = "off"
  /\ wstate = NoWatcherState
  /\ debounceTimers = {}
  /\ timers = {}
  /\ adding = <<>>
  /\ inflight = <<>>
  /\ obs = ObsInit
  /\ manifest = NoManifestFile
  /\ runs = 0
  /\ call = NoCall
  /\ cleanupResult = EmptyCleanupResult
  /\ sameAsPrev = FALSE
  /\ prevRenamed = FALSE
  /\ phase = "idle"
  /\ scanResult = NoScanResult
  /\ pass = 0
  /\ mergeResults = <<>>
  /\ dirResults = <<>>
  /\ firstPassOk = FALSE
  /\ writes = 0
  /\ NoConcurrentRuns
  /\ applied = NoDirectCall

\* expired timers run before the callbacks of file events and signals
NoTimerDue == \A t \in timers : t.remaining > 0

\* startWatcher(machineName, options): scan, build the state, watch
StartWatcher ==
  /\ wphase = "off"
  /\ LET r == scanAllOperations(fs, MachineName)
     IN IF r.error # "none"
        THEN wphase' = "exited" /\ wstate' = wstate
        ELSE IF r.mergeOperations = <<>> /\ r.directoryOperations = <<>>
        THEN wphase' = "nothing" /\ wstate' = wstate
        ELSE /\ wphase' = "watching"
             /\ wstate' = [operations |-> r.mergeOperations,
                           directoryOperations |-> r.directoryOperations]
  /\ UNCHANGED <<fs, debounceTimers, timers, adding, inflight, obs>>
  /\ UNCHANGED WatchRest

\* a watched file is written; chokidar emits 'change' for it
ChangeEvent ==
  /\ wphase = "watching"
  /\ obs.events < MaxEvents
  /\ NoTimerDue
  /\ \E p \in EventPaths \cap Files(fs) :
       /\ InWatchPatterns(p, wstate)
       /\ \E c \in NewContents(fs, p) : fs' = WriteFile(fs, p, c)
       /\ LET r == onChange(timers, debounceTimers, p, obs.events + 1)
          IN /\ timers' = r.timers
             /\ debounceTimers' = r.debounceTimers
       /\ obs' = [obs EXCEPT !.events = @ + 1,
                             !.changes[p] = @ + 1,
                             !.bursts[p] = IF obs.quiet[p] >= DebounceTicks THEN @ + 1 ELSE @,
                             !.quiet[p] = 0]
  /\ UNCHANGED <<wphase, wstate, adding, inflight>>
  /\ UNCHANGED WatchRest

\* a file appears in a watched source directory; chokidar emits 'add' and the
\* handler awaits its rescan
AddEvent ==
  /\ wphase = "watching"
  /\ obs.events < MaxEvents
  /\ NoTimerDue
  /\ \E p \in EventPaths \ DOMAIN fs :
       /\ InWatchPatterns(p, wstate)
       /\ dirname(p) \in DOMAIN fs
       /\ fs' = WriteFile(fs, p, Text("text", "t1"))
       /\ adding' = Append(adding, p)
  /\ obs' = [obs EXCEPT !.events = @ + 1]
  /\ UNCHANGED <<wphase, wstate, debounceTimers, timers, inflight>>
  /\ UNCHANGED WatchRest

\* the rescan of an add handler returns: the state is replaced and
\* handleFileChange is called for the added path
AddRescanned ==
  /\ wphase \in {"watching", "stopped"}
  /\ adding # <<>>
  /\ LET r == scanAllOperations(fs, MachineName)
         w == [operations |-> r.mergeOperations,
               directoryOperations |-> r.directoryOperations]
     IN IF r.error # "none"
        THEN UNCHANGED <<wstate, inflight, obs>>
        ELSE /\ wstate' = w
             /\ inflight' = StartExecution(inflight, Head(adding), w)
             /\ obs' = [obs EXCEPT !.started = @ + 1,
                                   !.finished = IF handleFileChange(Head(adding), w) = <<>>
                                                THEN @ + 1 ELSE @]
  /\ adding' = Tail(adding)
  /\ UNCHANGED <<fs, wphase, debounceTimers, timers>>
  /\ UNCHANGED WatchRest

\* a watched file is removed; chokidar emits 'unlink' and the handler logs it
UnlinkEvent ==
  /\ wphase = "watching"
  /\ obs.events < MaxEvents
  /\ NoTimerDue
  /\ \E p \in EventPaths \cap Files(fs) :
       /\ InWatchPatterns(p, wstate)
       /\ fs' = RemoveTree(fs, p)
  /\ obs' = [obs EXCEPT !.events = @ + 1]
  /\ UNCHANGED <<wphase, wstate, debounceTimers, timers, adding, inflight>>
  /\ UNCHANGED WatchRest

\* the clock advances by one tick
Tick ==
  /\ wphase = "watching"
  /\ obs.now < MaxTicks
  /\ NoTimerDue
  /\ timers' = {[t EXCEPT !.remaining = @ - 1] : t \in timers}
  /\ obs' = [obs EXCEPT !.now = @ + 1,
                        !.quiet = [p \in EventPaths |->
                                     IF obs.quiet[p] < DebounceTicks
                                     THEN obs.quiet[p] + 1 ELSE obs.quiet[p]]]
  /\ UNCHANGED <<fs, wphase, wstate, debounceTimers, adding, inflight>>
  /\ UNCHANGED WatchRest

\* a debounce timer is due: its callback forgets the path's timer and calls
\* handleFileChange
TimerFires ==
  /\ wphase = "watching"
  /\ \E t \in timers :
       /\ t.remaining = 0
       /\ timers' = timers \ {t}
       /\ debounceTimers' = {e \in debounceTimers : e.path # t.path}
       /\ inflight' = StartExecution(inflight, t.path, wstate)
       /\ obs' = [obs EXCEPT !.debounced[t.path] = @ + 1,
                             !.started = @ + 1,
                             !.finished = IF handleFileChange(t.path, wstate) = <<>>
                                          THEN @ + 1 ELSE @]
  /\ UNCHANGED <<fs, wphase, wstate, adding>>
  /\ UNCHANGED WatchRest

RemoveAt(s, i) == SubSeq(s, 1, i - 1) \o SubSeq(s, i + 1, Len(s))

\* the performMerge a call of handleFileChange awaits has read its sources
ExecRead ==
  /\ wphase \in {"watching", "stopped"}
  /\ \E i \in 1..Len(inflight) :
       /\ Head(inflight[i].todo).kind = "merge"
       /\ inflight[i].seen = <<>>
       /\ inflight' = [inflight EXCEPT
                         ![i].seen = <<SourcesRead(fs, Head(inflight[i].todo).operation)>>]
  /\ UNCHANGED <<fs, wphase, wstate, debounceTimers, timers, adding, obs>>
  /\ UNCHANGED WatchRest

\* a call of handleFileChange gets the result of the executor it awaited
ExecStep ==
  /\ wphase \in {"watching", "stopped"}
  /\ \E i \in 1..Len(inflight) :
       LET work == Head(inflight[i].todo)
       IN /\ work.kind = "merge" => inflight[i].seen # <<>>
          /\ fs' = IF work.kind = "merge"
                   THEN finishMerge(fs, work.operation, inflight[i].seen[1])
                   ELSE performDirectoryCopy(fs, work.operation).fs
          /\ IF Len(inflight[i].todo) = 1
             THEN /\ inflight' = RemoveAt(inflight, i)
                  /\ obs' = [obs EXCEPT !.finished = @ + 1]
             ELSE /\ inflight' = [inflight EXCEPT ![i].todo = Tail(@), ![i].seen = <<>>]
                  /\ obs' = obs
  /\ UNCHANGED <<wphase, wstate, debounceTimers, timers, adding>>
  /\ UNCHANGED WatchRest

\* the function startWatcher returned is called (after a scan that found
\* nothing it is () => {})
Stop ==
  /\ wphase \in {"watching", "nothing"}
  /\ NoTimerDue
  /\ LET r == stopFunction(timers, debounceTimers)
     IN /\ timers' = r.timers
        /\ debounceTimers' = r.debounceTimers
  /\ wphase' = "stopped"
  /\ obs' = [obs EXCEPT !.atStop = Len(inflight)]
  /\ UNCHANGED <<fs, wstate, adding, inflight>>
  /\ UNCHANGED WatchRest

\* shutdown of handleWatch: await stopWatcher(); process.exit(0)
Exit ==
  /\ wphase = "stopped"
  /\ wphase' = "exited"
  /\ inflight' = <<>>
  /\ adding' = <<>>
  /\ UNCHANGED <<fs, wstate, debounceTimers, timers, obs>>
  /\ UNCHANGED WatchRest

NextWatcher ==
  \/ StartWatcher \/ ChangeEvent \/ AddEvent \/ AddRescanned \/ UnlinkEvent
  \/ Tick \/ TimerFires \/ ExecRead \/ ExecStep \/ Stop \/ Exit

SpecWatcher == InitWatcher /\ [][NextWatcher]_vars

----------------------------------------------------------------------------
(* Properties of watch mode *)

\* C17: change events for one path that follow each other by less than the
\* debounce interval make one burst.  A timer starts an execution for the
\* path only when the path has been quiet for the whole interval, it starts
\* one at a time, and when the clock moves on past that point every burst of
\* the path has had exactly one execution
C17_BurstGetsOneExecution ==
  [][\A p \in EventPaths :
       /\ obs'.debounced[p] # obs.debounced[p] =>
            /\ obs.quiet[p] >= DebounceTicks
            /\ obs'.debounced[p] = obs.debounced[p] + 1
       /\ (wphase' = "watching" /\ obs'.now # obs.now /\ obs.quiet[p] >= DebounceTicks) =>
            obs.debounced[p] = obs.bursts[p]
       /\ wphase' = "watching" =>
            /\ obs'.debounced[p] <= obs'.bursts[p]
            /\ obs'.quiet[p] < DebounceTicks => obs'.debounced[p] = obs'.bursts[p] - 1]_vars

\* a burst of two change events has been answered by one execution
C17_Witness ==
  \E p \in EventPaths :
    /\ obs.changes[p] >= 2
    /\ obs.bursts[p] = 1
    /\ obs.debounced[p] = 1
    /\ obs.started = 1

\* C18: once the stop function has been called, no call of handleFileChange
\* is started any more
C18_NoExecutionStartsAfterStop ==
  [][wphase = "stopped" => obs'.started = obs.started]_vars

\* C19: a call of handleFileChange that is under way leaves the list of
\* running calls only by getting the result of its last executor call;
\* shutdown does not cut it off
C19_RunningExecutionsFinish ==
  [][Len(inflight') < Len(inflight) =>
       /\ Len(inflight') = Len(inflight) - 1
       /\ obs'.finished = obs.finished + 1]_vars

\* the output of a merge operation holds what the merge computes
OutputIsMerged(f, operation) ==
  HasMergedContent(f, operation) =>
    /\ fileExists(f, operation.outputPath)
    /\ f[normalize(operation.outputPath)].content = MergedFor(f, operation)

\* the output of a directory copy holds a copy of every source file
OutputIsCopied(f, operation) ==
  /\ performDirectoryCopy(f, operation).result.success
  /\ performDirectoryCopy(f, operation).wrote = 0

\* C20: when startWatcher has returned and no file event has occurred, the
\* output of every operation it found exists with the merged content
C20_InitialMergeBeforeWatching ==
  (wphase = "watching" /\ obs.events = 0) =>
    /\ \A op \in Range(wstate.operations) : OutputIsMerged(fs, op)
    /\ \A op \in Range(wstate.directoryOperations) : OutputIsCopied(fs, op)

\* the operation set a rescan of the tree f gives
Rescanned(f) ==
  [operations |-> scanAllOperations(f, MachineName).mergeOperations,
   directoryOperations |-> scanAllOperations(f, MachineName).directoryOperations]

\* C21: while the watcher runs and no add handler is waiting for its rescan,
\* the operation set of the watcher is the one a scan of the tree as it is
\* now gives: every addition and removal of a watched source has been
\* followed by a rescan
C21_OperationSetFollowsTopology ==
  (wphase = "watching" /\ adding = <<>>
     /\ scanAllOperations(fs, MachineName).error = "none") =>
    wstate = Rescanned(fs)

----------------------------------------------------------------------------
(* Direct calls: one exported function called on its own with arguments of  *)
(* the caller's making, as the unit and integration tests call them         *)

ConfigOut == <<Nm("config", ".json")>>

\* the disks performMerge is called on: each of config.base.json,
\* config.{machine=m1}.json and config.json absent or present
MergeCallDisks ==
  {Tree(b \cup m \cup o) :
     b \in {{}, {File(ConfigBase, "json", BaseDoc)}, {File(ConfigBase, "jsonc", BaseDoc)}},
     m \in {{}, {File(ConfigM1, "json", OverlayDoc)}, {File(ConfigM1, "jsonc", OverlayDoc)},
            {File(ConfigM1, "json", NonPrimitiveDoc)}},
     o \in {{}, {File(ConfigOut, "json", BaseDoc)}, {Dir(ConfigOut)}}}

\* the operations handed to performMerge: base and overlay, and base only
MergeCallOperations ==
  {createMergeOperation(ConfigM1, MachineName), createBaseOnlyMergeOperation(ConfigBase)}

\* the disks restore and purge are called on: what cleanup runs leave behind,
\* with or without a node_modules directory that holds a soft-deleted entry
SoftDeletedDisks ==
  {[p \in DOMAIN d \cup DOMAIN n |-> IF p \in DOMAIN d THEN d[p] ELSE n[p]] :
     d \in InitialDisks,
     n \in {Tree({}),
            Tree({Dir(<<Nm("node_modules", "")>>),
                  <<<<Nm("node_modules", "")>> \o PADel, FileNode(Content2)>>})}}

\* a.json.permachine-deleted, a.json, d.permachine-deleted, d/./a.json.permachine-deleted
RestoreArguments == {PADel, PA, getDeletedPath(PD), getDeletedPath(PDDotA)}

MaxArrayLen == 2   \* longest array handed to mergeArrays

\* array elements: the number 1, the string "1", null, and an object
ArrayElements == {JNum("1"), JStr("1"), JNull, JObj(<<>>)}

ArraysUpTo(n) == UNION {[1..k -> ArrayElements] : k \in 0..n}

\* the values a key of a document may hold: scalars, arrays, and maps of them
DocLeaves ==
  {JNum("1"), JNull, JArr(<<JStr("x")>>), JArr(<<JStr("y")>>), JArr(<<JObj(<<>>)>>)}

DocValues == DocLeaves \cup {JObj(<<KV("k", leaf)>>) : leaf \in DocLeaves}

\* the documents handed to deepMerge: maps with the key "a", the key
\* "__proto__" (holding a scalar), both in either order, or no key
MergeDocs ==
  LET as == {<<KV("a", v)>> : v \in DocValues}
      ps == {<<KV("__proto__", v)>> : v \in {JNum("1"), JNull}}
  IN {JObj(e) : e \in {<<>>} \cup as \cup ps
                       \cup {a \o p : a \in as, p \in ps}
                       \cup {p \o a : a \in as, p \in ps}}

MaxFilters == 2   \* most {...} groups in a name handed to matchFilters

\* the groups {key=options} and {key!=options} of the names
FilterGroups ==
  {Flt(key, operator, value) :
     key \in {"os", "env"}, operator \in {"=", "!="},
     value \in {<<"linux">>, <<"windows", "Linux">>, <<"dev">>, <<"prod", "test">>}}

FilterLists == UNION {[1..k -> FilterGroups] : k \in 0..MaxFilters}

\* createCustomContext: linux or windows, NODE_ENV unset or dev
Contexts ==
  {[Context EXCEPT !.os = os, !.platform = os, !.env = env] :
     os \in {"linux", "windows"}, env \in {"null", "dev"}}

\* the filters handed to evaluateFilter: an own key, a key no context has,
\* and a key every context object inherits
SingleFilters ==
  {Flt(key, f[1], f[2]) :
     key \in {"env", "version", "region", "constructor"},
     f \in {<<"=", <<"dev">>>>, <<"!=", <<"dev">>>>, <<"~", <<"*">>>>, <<"~", <<"d*">>>>,
            <<"^", <<"a", "z">>>>, <<"^", <<"1", "20">>>>}}

\* the contexts of evaluateFilter: those of matchFilters, and each of them
\* with a key "version" added, as { ...context, version: '1.5' }
FilterContexts ==
  Contexts \cup {[key \in DOMAIN context \cup {"version"} |->
                    IF key = "version" THEN "1.5" ELSE context[key]] : context \in Contexts}

ConfigsM1 == <<Overlay("configs", ThisMachine, "")>>

\* what the trees handed to scanAllOperations are put together from:
\* app.base.json with app.{machine=m1}.json; the directory
\* configs.{machine=m1} holding settings.{machine=m1}.json, and data.base.json;
\* the directory docs.{os=windows} holding cfg.{os=linux}.json, and holding
\* the directory sub with app.m1.json; config.m1.json; config.m1.{os=linux}.json
ScanCallCandidates ==
  { {File(<<Legacy("config", MachineName, ".json")>>, "json", OtherDoc)},
    {File(<<[Legacy("config", MachineName, ".json") EXCEPT !.filters = OsLinux]>>,
          "json", OverlayDoc)},
    {File(<<Base("app", ".json")>>, "json", BaseDoc),
     File(<<Overlay("app", ThisMachine, ".json")>>, "json", OverlayDoc)},
    {Dir(ConfigsM1),
     File(Append(ConfigsM1, Overlay("settings", ThisMachine, ".json")), "json", OtherDoc)},
    {Dir(ConfigsM1), File(Append(ConfigsM1, Base("data", ".json")), "json", BaseDoc)},
    {Dir(DocsWin), File(Append(DocsWin, Overlay("cfg", OsLinux, ".json")), "json", OtherDoc)},
    {Dir(DocsWin), Dir(Append(DocsWin, Nm("sub", ""))),
     File(DocsWin \o <<Nm("sub", ""), Legacy("app", MachineName, ".json")>>,
          "json", OtherDoc)} }

ScanCallTrees == {Tree(UNION T) : T \in SUBSET ScanCallCandidates}

PDDel == getDeletedPath(PD)

\* disks on which the soft-deleted form of an output is taken: a.json next to
\* a.json.permachine-deleted (a file, or a directory holding x.txt), with or
\* without the directory d (holding a.json) and d.permachine-deleted (a file,
\* or a directory holding x.txt)
CollisionDisks ==
  {Tree({<<PA, FileNode(Content1)>>} \cup ad \cup d \cup dd) :
     ad \in {{<<PADel, FileNode(Content2)>>},
             {<<PADel, DirNode>>, <<PADel \o <<Nm("x", ".txt")>>, FileNode(Content2)>>}},
     d \in {{}, {<<PD, DirNode>>, <<PDA, FileNode(Content1)>>}},
     dd \in {{}, {<<PDDel, FileNode(Content2)>>},
             {<<PDDel, DirNode>>, <<PDDel \o <<Nm("x", ".txt")>>, FileNode(Content2)>>}}}

\* the manifests of the run before
CollisionManifests ==
  {[present |-> TRUE, version |-> MANIFEST_VERSION, outputs |-> outputs, lastRun |-> 0] :
     outputs \in {<<PA>>, <<PA, PD>>, <<PD, PA>>, <<PA, PADel>>}}

CollisionOutputs == {<<>>, <<PD>>, <<PADel>>}

\* the values a member of a text is written with: strings (one of them
\* holding a comma before a brace, one a comma before a bracket, one the
\* start of a comment), numbers, an array with a trailing comma, an object
MemberTexts ==
  { <<StrTok("value")>>, <<StrTok(",}")>>, <<StrTok("[1, ]")>>, <<StrTok("// x")>>,
    <<NumTok("42")>>, <<NumTok("1.0")>>,
    <<P("["), NumTok("1"), P(","), Ws(" "), NumTok("2"), P(","), P("]")>>,
    <<P("{"), StrTok("n"), P(":"), Ws(" "), [t |-> "lit", v |-> "true"], P("}")>> }

CommentTexts ==
  { <<>>, <<[t |-> "line", v |-> "// This is a comment"], Ws("\n")>>,
    <<[t |-> "block", v |-> "/* Block comment */"], Ws(" ")>> }

\* { <comment> "key": <member>, <comment> "number": 42 <trailing comma> }
JsonTexts ==
  { <<P("{"), Ws("\n")>> \o comment1 \o <<StrTok("key"), P(":"), Ws(" ")>> \o member
      \o <<P(","), Ws("\n")>> \o comment2 \o <<StrTok("number"), P(":"), Ws(" "), NumTok("42")>>
      \o trailing \o <<Ws("\n"), P("}")>> :
      member \in MemberTexts, comment1 \in CommentTexts, comment2 \in CommentTexts,
      trailing \in {<<>>, <<P(",")>>} }

Notes == <<Nm("notes", ".txt")>>

\* the disks performDirectoryCopy is called on: the source skills.{machine=m1}
\* holds a.txt, with or without sub/b.txt or a link l.txt; the output skills
\* is absent, empty, a file, or holds a.txt (equal, different, a directory, a
\* link to notes.txt or to a path in the source) or another file z.txt;
\* notes.txt lies next to them
CopyCallDisks ==
  {Tree({Dir(SkillsM1), File(SkillsA, "text", "t1"), File(Notes, "text", "t3")}
          \cup src \cup out) :
     src \in {{},
              {Dir(Append(SkillsM1, Nm("sub", ""))),
               File(SkillsM1 \o <<Nm("sub", ""), Nm("b", ".txt")>>, "text", "t1")},
              {<<Append(SkillsM1, Nm("l", ".txt")), LinkNode(Notes)>>}},
     out \in {{}, {File(Skills, "text", "t2")}, {Dir(Skills)},
              {Dir(Skills), File(Append(Skills, Nm("a", ".txt")), "text", "t1")},
              {Dir(Skills), File(Append(Skills, Nm("a", ".txt")), "text", "t2")},
              {Dir(Skills), Dir(Append(Skills, Nm("a", ".txt")))},
              {Dir(Skills), <<Append(Skills, Nm("a", ".txt")), LinkNode(Notes)>>},
              {Dir(Skills), <<Append(Skills, Nm("a", ".txt")), LinkNode(SkillsB)>>},
              {Dir(Skills), File(Append(Skills, Nm("z", ".txt")), "text", "t2")}}}

SkillsCopy == [sourcePath |-> SkillsM1, outputPath |-> Skills, type |-> "directory"]

PendingCall(function, args) ==
  [function |-> function, args |-> args, done |-> FALSE, result |-> <<>>]

Returned(function) == applied.function = function /\ applied.done

\* the step is the call of the function returning
Returns(function) ==
  applied.function = function /\ ~applied.done /\ applied'.done

CallRest ==
  <<manifest, runs, call, cleanupResult, sameAsPrev, prevRenamed, pipelineVars, concVars,
    watchVars>>

InitCalls ==
  /\ \/ /\ fs \in MergeCallDisks
        /\ applied \in {PendingCall("performMerge", <<operation>>) :
                          operation \in MergeCallOperations}
     \/ /\ fs = Tree({})
        /\ applied \in {PendingCall("mergeArrays", <<base, machine>>) :
                          base \in ArraysUpTo(MaxArrayLen),
                          machine \in ArraysUpTo(MaxArrayLen)}
     \/ /\ fs = Tree({})
        /\ applied \in {PendingCall("deepMerge", <<base, machine>>) :
                          base \in MergeDocs, machine \in MergeDocs}
     \/ /\ fs = Tree({})
        /\ applied \in {PendingCall("matchFilters",
                                      <<[Nm("config", ".json") EXCEPT !.filters = filters],
                                        context>>) :
                          filters \in FilterLists, context \in Contexts}
     \/ /\ fs = Tree({})
        /\ applied \in {PendingCall("evaluateFilter", <<filter, context>>) :
                          filter \in SingleFilters, context \in FilterContexts}
     \/ /\ fs = Tree({})
        /\ applied \in {PendingCall("parse", <<content>>) : content \in JsonTexts}
     \/ /\ fs \in CopyCallDisks
        /\ applied = PendingCall("performDirectoryCopy", <<SkillsCopy>>)
     \/ /\ fs \in ScanCallTrees
        /\ applied = PendingCall("scanAllOperations", <<MachineName>>)
     \/ /\ fs \in CollisionDisks
        /\ applied \in {PendingCall("cleanupStaleOutputs", <<currentOutputs, failing>>) :
                          currentOutputs \in CollisionOutputs, failing \in SUBSET {PA, PD}}
     \/ /\ fs \in SoftDeletedDisks
        /\ applied \in {PendingCall("restoreDeletedOutput", <<deletedPath, renameFails>>) :
                          deletedPath \in RestoreArguments, renameFails \in BOOLEAN}
     \/ /\ fs \in SoftDeletedDisks
        /\ applied \in {PendingCall("purgeDeletedOutputs", <<failing>>) :
                          failing \in SUBSET purgeGlob(fs)}
  /\ manifest \in IF applied.function = "cleanupStaleOutputs"
                    THEN {man \in CollisionManifests :
                            applied.args[2] \subseteq StaleOnDisk(fs, man, applied.args[1])}
                    ELSE {NoManifestFile}
  /\ runs = 0
  /\ call = NoCall
  /\ cleanupResult = EmptyCleanupResult
  /\ sameAsPrev = FALSE
  /\ prevRenamed = FALSE
  /\ phase = "idle"
  /\ scanResult = NoScanResult
  /\ pass = 0
  /\ mergeResults = <<>>
  /\ dirResults = <<>>
  /\ firstPassOk = FALSE
  /\ writes = 0
  /\ NoConcurrentRuns
  /\ WatchOff

\* performMerge(operation)
CallPerformMerge ==
  /\ applied.function = "performMerge"
  /\ ~applied.done
  /\ LET operation == applied.args[1]
     IN \E writeFails \in (IF AttemptsWrite(fs, operation) THEN BOOLEAN ELSE {FALSE}) :
          LET r == performMerge(fs, operation, writeFails)
          IN /\ fs' = r.fs
             /\ applied' = [applied EXCEPT !.done = TRUE, !.result = r.result]
  /\ UNCHANGED CallRest

\* restoreDeletedOutput(deletedPath)
CallRestore ==
  /\ applied.function = "restoreDeletedOutput"
  /\ ~applied.done
  /\ LET r == restoreDeletedOutput(fs, applied.args[1], applied.args[2])
     IN /\ fs' = r.fs
        /\ applied' = [applied EXCEPT !.done = TRUE, !.result = r.restored]
  /\ UNCHANGED CallRest

\* purgeDeletedOutputs(cwd)
CallPurge ==
  /\ applied.function = "purgeDeletedOutputs"
  /\ ~applied.done
  /\ LET r == purgeDeletedOutputs(fs, applied.args[1])
     IN /\ fs' = r.fs
        /\ applied' = [applied EXCEPT !.done = TRUE, !.result = r.purged]
  /\ UNCHANGED CallRest

\* JsonAdapter.mergeArrays(base, machine, path)
CallMergeArrays ==
  /\ applied.function = "mergeArrays"
  /\ ~applied.done
  /\ applied' = [applied EXCEPT !.done = TRUE,
                                 !.result = mergeArrays(applied.args[1], applied.args[2])]
  /\ UNCHANGED fs
  /\ UNCHANGED CallRest

\* JsonAdapter.merge(base, machine)
CallDeepMerge ==
  /\ applied.function = "deepMerge"
  /\ ~applied.done
  /\ applied' = [applied EXCEPT !.done = TRUE,
                                 !.result = deepMerge(applied.args[1], applied.args[2])]
  /\ UNCHANGED fs
  /\ UNCHANGED CallRest

\* matchFilters(filename, context).matches
CallMatchFilters ==
  /\ applied.function = "matchFilters"
  /\ ~applied.done
  /\ applied' = [applied EXCEPT !.done = TRUE,
                                 !.result = matchFilters(applied.args[1], applied.args[2])]
  /\ UNCHANGED fs
  /\ UNCHANGED CallRest

\* evaluateFilter(filter, context): it throws, or returns a boolean
CallEvaluateFilter ==
  /\ applied.function = "evaluateFilter"
  /\ ~applied.done
  /\ applied' =
       [applied EXCEPT
          !.done = TRUE,
          !.result = IF evaluateFilterThrows(applied.args[1], applied.args[2])
                     THEN [threw |-> TRUE, value |-> FALSE]
                     ELSE [threw |-> FALSE,
                           value |-> evaluateFilter(applied.args[1], applied.args[2])]]
  /\ UNCHANGED fs
  /\ UNCHANGED CallRest

\* scanAllOperations(machineName, cwd)
CallScanAllOperations ==
  /\ applied.function = "scanAllOperations"
  /\ ~applied.done
  /\ applied' = [applied EXCEPT !.done = TRUE,
                                 !.result = scanAllOperations(fs, applied.args[1])]
  /\ UNCHANGED fs
  /\ UNCHANGED CallRest

\* cleanupStaleOutputs(currentOutputs, cwd); args[2]: the stale paths whose
\* rename the disk refuses
CallCleanupStaleOutputs ==
  /\ applied.function = "cleanupStaleOutputs"
  /\ ~applied.done
  /\ LET r == cleanupStaleOutputs(fs, manifest, applied.args[1], applied.args[2], 1)
     IN /\ fs' = r.fs
        /\ manifest' = r.manifest
        /\ applied' = [applied EXCEPT !.done = TRUE, !.result = r.result]
  /\ UNCHANGED <<runs, call, cleanupResult, sameAsPrev, prevRenamed, pipelineVars,
                 concVars, watchVars>>

\* adapter.serialize(adapter.parse(content))
CallParseSerialize ==
  /\ applied.function = "parse"
  /\ ~applied.done
  /\ LET data == parse(applied.args[1])
     IN applied' = [applied EXCEPT
                      !.done = TRUE,
                      !.result = [data |-> data,
                                  text |-> IF IsError(data) THEN <<>> ELSE serialize(data)]]
  /\ UNCHANGED fs
  /\ UNCHANGED CallRest

\* performDirectoryCopy(operation)
CallPerformDirectoryCopy ==
  /\ applied.function = "performDirectoryCopy"
  /\ ~applied.done
  /\ LET r == performDirectoryCopy(fs, applied.args[1])
     IN /\ fs' = r.fs
        /\ applied' = [applied EXCEPT !.done = TRUE, !.result = r.result]
  /\ UNCHANGED CallRest

NextCalls ==
  \/ CallPerformDirectoryCopy
  \/ CallParseSerialize
  \/ CallCleanupStaleOutputs
  \/ CallScanAllOperations
  \/ CallEvaluateFilter
  \/ CallPerformMerge
  \/ CallRestore
  \/ CallPurge
  \/ CallMergeArrays
  \/ CallDeepMerge
  \/ CallMatchFilters

SpecCalls == InitCalls /\ [][NextCalls]_vars

----------------------------------------------------------------------------
(* Properties of the merge executor called directly *)

SourcesOnDisk(f, operation) ==
  {p \in {operation.basePath, operation.machinePath} : p # <<>> /\ pathExists(f, normalize(p))}

\* C22: performMerge of an operation none of whose sources exists returns
\* skipped=true, success=false, changed=false and no error, and leaves the
\* disk as it was
C22_NoSourceIsSkipped ==
  [][(Returns("performMerge") /\ SourcesOnDisk(fs, applied.args[1]) = {})
       => /\ applied'.result.skipped
          /\ ~applied'.result.success
          /\ ~applied'.result.changed
          /\ applied'.result.error = "none"
          /\ fs' = fs]_vars

\* performMerge has returned from an operation whose base and overlay are
\* both missing, and no output file is there
C22_Witness ==
  /\ Returned("performMerge")
  /\ applied.args[1].basePath # <<>>
  /\ SourcesOnDisk(fs, applied.args[1]) = {}
  /\ applied.result.skipped
  /\ ~pathExists(fs, ConfigOut)

C24_JsonOutputIsClean ==
  [][(MergeStep /\ getAdapter(StepOperation.outputPath) = "json"
        /\ StepResult.success /\ StepResult.changed)
       => fs'[normalize(StepOperation.outputPath)].content.fmt = "json"]_vars

----------------------------------------------------------------------------
(* Properties of restore and purge *)

\* C25: restoreDeletedOutput of a soft-deleted entry that is on disk: when
\* the original path exists it returns false and the disk is as it was; when
\* the original path is absent it renames the entry (a file, or a directory
\* with all it holds) back to the original path and returns true, unless the
\* rename itself is refused
C25_RestoreIffOriginalAbsent ==
  [][(Returns("restoreDeletedOutput") /\ isDeletedPath(applied.args[1])
        /\ pathExists(fs, applied.args[1]) /\ ~applied.args[2])
       => LET deletedPath == normalize(applied.args[1])
              originalPath == normalize(getOriginalPath(applied.args[1]))
          IN IF pathExists(fs, originalPath)
             THEN applied'.result = FALSE /\ fs' = fs
             ELSE /\ applied'.result = TRUE
                  /\ ~pathExists(fs', deletedPath)
                  /\ SubTree(fs', originalPath) = SubTree(fs, deletedPath)
                  /\ \A p \in DOMAIN fs :
                       ~IsAtOrUnder(p, deletedPath) => (p \in DOMAIN fs' /\ fs'[p] = fs[p])]_vars

\* a soft-deleted directory has been restored with the file it holds
C25_Witness ==
  /\ Returned("restoreDeletedOutput")
  /\ applied.result = TRUE
  /\ IsDirectory(fs, PA)
  /\ pathExists(fs, PA \o <<Nm("x", ".txt")>>)
  /\ ~pathExists(fs, PADel)

\* C26: after purgeDeletedOutputs returns, none of whose removals was
\* refused, no path that carries the soft-delete suffix is left beneath the
\* root
C26_PurgeLeavesNoSoftDeleted ==
  (Returned("purgeDeletedOutputs") /\ applied.args[1] = {})
    => SoftDeletedPaths(fs) = {}

----------------------------------------------------------------------------
(* Properties of the structured-data merge *)

\* the elements of s at their first occurrence, in the order of s
FirstOccurrences(s) ==
  LET firsts == {i \in 1..Len(s) : \A j \in 1..(i - 1) : s[j] # s[i]}
  IN [k \in 1..Cardinality(firsts) |->
        s[CHOOSE i \in firsts : Cardinality({j \in firsts : j < i}) = k - 1]]

RECURSIVE ArrayClash(_, _)
ArrayClash(base, machine) ==
  IF base.t = "arr" /\ machine.t = "arr"
  THEN ~isArrayOfPrimitives(base.v) \/ ~isArrayOfPrimitives(machine.v)
  ELSE IF base.t = "obj" /\ machine.t = "obj"
  THEN \E i \in DOMAIN base.v, j \in DOMAIN machine.v :
         base.v[i].k = machine.v[j].k /\ ArrayClash(base.v[i].v, machine.v[j].v)
  ELSE FALSE

\* both sources of the operation are on disk and parse
BothParse(f, operation) ==
  /\ Cardinality(SourcesOnDisk(f, operation)) = 2
  /\ \A p \in SourcesOnDisk(f, operation) :
       ~IsDirectory(f, p) /\ ~IsError(JsonParse(f[normalize(p)].content))

Keys(object) == {object.v[i].k : i \in DOMAIN object.v}

ValueAt(object, key) == object.v[IndexOfKey(object.v, key)].v

\* result is what the rule of the structured-data merge gives for base and
\* machine: maps key by key, arrays by the array rule, anything else replaced
RECURSIVE IsMergeOf(_, _, _)
IsMergeOf(base, machine, result) ==
  IF base.t = "obj" /\ machine.t = "obj"
  THEN /\ result.t = "obj"
       /\ Keys(result) = Keys(base) \cup Keys(machine)
       /\ \A key \in Keys(result) :
            IF key \in Keys(base) \cap Keys(machine)
            THEN IsMergeOf(ValueAt(base, key), ValueAt(machine, key), ValueAt(result, key))
            ELSE IF key \in Keys(base) THEN ValueAt(result, key) = ValueAt(base, key)
            ELSE ValueAt(result, key) = ValueAt(machine, key)
  ELSE IF base.t = "arr" /\ machine.t = "arr"
  THEN result = mergeArrays(base.v, machine.v)
  ELSE result = machine

\* C29: the merge of two documents whose arrays can be merged: a key of both
\* holds the merge of the two maps, or the merged array of the two arrays, or
\* else the overlay's value (null included); a key of one side only holds
\* that side's value
C29_MergeKeyByKey ==
  (Returned("deepMerge") /\ ~ArrayClash(applied.args[1], applied.args[2]))
    => IsMergeOf(applied.args[1], applied.args[2], applied.result)

----------------------------------------------------------------------------
(* Properties of the filter evaluation *)

\* the option is the context's value for the key, letter case aside; a key the
\* context has no value for matches no option
OptionMatches(option, context, key) ==
  /\ key \in DOMAIN context
  /\ context[key] # "null"
  /\ toLowerCase(option) = toLowerCase(context[key])

AnyOptionMatches(group, context) ==
  \E i \in 1..Len(group.value) : OptionMatches(group.value[i], context, group.key)

\* the predicate of a group as the claim words it: any option for =, none for !=
GroupHoldsAsWorded(group, context) ==
  IF group.operator = "=" THEN AnyOptionMatches(group, context)
  ELSE ~AnyOptionMatches(group, context)

C31_AbsentKeyAlwaysFails ==
  (Returned("evaluateFilter")
     /\ (applied.args[1].key \notin DOMAIN applied.args[2]
           \/ applied.args[2][applied.args[1].key] = "null"))
    => (~applied.result.threw /\ applied.result.value = FALSE)

----------------------------------------------------------------------------
(* Properties of the scan called directly *)

\* the path lies beneath a directory whose name carries a filter
BeneathFilteredDirectory(p) ==
  \E i \in 1..(Len(p) - 1) : isFilteredDirectory(normalize(p)[i])

\* the files of f that the merge scan takes for overlays or bases by their name
NamedLikeASource(f) ==
  {p \in Files(f) : hasFilters(basename(p)) \/ isBaseFile(basename(p))
                      \/ isLegacyFilename(basename(p), MachineName)}

\* C32: no basePath and no machinePath of a merge operation of a ScanResult
\* lies beneath a directory whose name carries a filter, whether the filter
\* matches the context or not
C32_NoSourceBeneathFilteredDirectory ==
  (Returned("scanAllOperations") /\ applied.result.error = "none")
    => \A i \in 1..Len(applied.result.mergeOperations) :
         LET operation == applied.result.mergeOperations[i]
         IN /\ operation.basePath # <<>> => ~BeneathFilteredDirectory(operation.basePath)
            /\ operation.machinePath # <<>> => ~BeneathFilteredDirectory(operation.machinePath)

\* a scan has returned the one merge operation of app.json from a tree that
\* holds an overlay and a base file in a matching filtered directory and an
\* overlay in one that does not match
C32_Witness ==
  /\ Returned("scanAllOperations")
  /\ applied.result.error = "none"
  /\ Len(applied.result.mergeOperations) = 1
  /\ \E p, q \in NamedLikeASource(fs) :
       /\ IsAncestor(ConfigsM1, p)
       /\ IsAncestor(DocsWin, q)

----------------------------------------------------------------------------
(* Properties of cleanupStaleOutputs called directly *)

\* the step is a call of cleanupStaleOutputs returning
CleanupReturns == Returns("cleanupStaleOutputs")

\* the stale paths on disk, at the start of the call, whose soft-deleted form
\* is on disk as well
StaleWithDeletedForm ==
  {p \in StaleOnDisk(fs, manifest, applied.args[1]) : pathExists(fs, getDeletedPath(p))}

UnrelatedToOtherStale(p) ==
  \A q \in StalePaths(manifest, applied.args[1]) \ {p} : Unrelated(p, q)

\* C34: a stale path whose rename fails is listed in the errors of the result
\* and stays where it was, and the call goes on: every other stale path on
\* disk is renamed or listed in errors as well (or went with a stale path it
\* is related to), a path whose rename does not fail is soft-deleted, and the
\* manifest is saved with the current outputs
C34_FailureIsCollectedAndLoopGoesOn ==
  [][CleanupReturns =>
       /\ \A p \in StaleOnDisk(fs, manifest, applied.args[1]) :
            /\ p \in Renamed(applied'.result) \cup Range(applied'.result.errors)
                 \/ ~UnrelatedToOtherStale(p)
            /\ (p \in applied.args[2] /\ UnrelatedToOtherStale(p))
                 => /\ p \in Range(applied'.result.errors)
                    /\ p \notin Renamed(applied'.result)
                    /\ SubTree(fs', p) = SubTree(fs, p)
            /\ (p \notin applied.args[2] /\ UnrelatedToOtherStale(p))
                 => SoftDeleted(fs, fs', applied'.result, p)
       /\ Range(applied'.result.errors) \subseteq applied.args[2]
       /\ manifest'.outputs = applied.args[1]]_vars

\* the rename of a.json has failed and is listed in errors, and the call has
\* gone on to soft-delete the directory d
C34_Witness ==
  /\ Returned("cleanupStaleOutputs")
  /\ applied.args[2] = {PA}
  /\ applied.result.errors = <<PA>>
  /\ applied.result.renamedDirectories = <<PD>>
  /\ pathExists(fs, PA)
  /\ ~pathExists(fs, PD)
  /\ IsDirectory(fs, PDDel)

----------------------------------------------------------------------------
(* Properties of the watcher: one path's events and another path's timer *)

\* the timers pending for the path q
PendingFor(ts, q) == {t \in ts : t.path = q}

\* the step is a change event for the path p
ChangeEventFor(p) == obs'.changes[p] = obs.changes[p] + 1

\* C35: a change event for one path leaves the pending timer of every other
\* path as it is (not cleared, not restarted, its remaining time unchanged),
\* and while the watcher runs every path that has changed has a timer pending
\* or has had its own call of handleFileChange
C35_DebounceIsPerPath ==
  [][/\ \A p \in EventPaths :
          ChangeEventFor(p) =>
            \A q \in EventPaths \ {p} :
              /\ PendingFor(timers', q) = PendingFor(timers, q)
              /\ {e \in debounceTimers' : e.path = q} = {e \in debounceTimers : e.path = q}
      /\ wphase' = "watching" =>
           \A r \in EventPaths :
             obs'.changes[r] > 0
               => (PendingFor(timers', r) # {} \/ obs'.debounced[r] >= 1)]_vars

\* two paths have changed within one debounce interval, and each has had its
\* own call of handleFileChange
C35_Witness ==
  /\ wphase = "watching"
  /\ obs.now = DebounceTicks
  /\ \E p, q \in EventPaths :
       /\ p # q
       /\ obs.changes[p] = 1 /\ obs.debounced[p] = 1
       /\ obs.changes[q] = 1 /\ obs.debounced[q] = 1

----------------------------------------------------------------------------
(* Properties of JsonAdapter.parse and serialize called directly *)

\* C36: for every valid text, with or without comments and trailing commas,
\* parse succeeds and the text serialize makes of its result denotes the same
\* value as the text parsed: the same keys with the same values
C36_RoundTripKeepsKeysAndValues ==
  Returned("parse")
    => /\ ~IsError(applied.result.data)
       /\ Denotes(applied.result.text) = Denotes(applied.args[1])

----------------------------------------------------------------------------
(* Properties of a scan made after the operations have been executed *)

\* the first execution of the ScanResult is over and every operation succeeded
FirstPassSucceeded ==
  /\ phase = "executing"
  /\ pass = 1
  /\ ~MergeLoopRuns(scanResult.mergeOperations, mergeResults)
  /\ ~CopyLoopRuns(scanResult.directoryOperations, dirResults)
  /\ AllSucceeded(mergeResults)
  /\ AllSucceeded(dirResults)

\* C37: after a run in which every operation succeeded, a scan of the tree as
\* the executors left it raises no structural error and returns the operations
\* of the scan before: no file an executor wrote is taken for a source
C37_ScanUnchangedByExecution ==
  FirstPassSucceeded => scanAllOperations(fs, MachineName) = scanResult

----------------------------------------------------------------------------
(* Properties of the watcher: the output once the events have stopped *)

\* no timer is pending and no call of a handler is under way
WatcherQuiet ==
  /\ wphase = "watching"
  /\ timers = {}
  /\ adding = <<>>
  /\ inflight = <<>>

\* the merge operations of the watcher a change event was about, with their
\* sources still where the operation has them
ChangedOperations ==
  {op \in Range(wstate.operations) :
     /\ \E p \in EventPaths \cap {op.basePath, op.machinePath} : obs.changes[p] > 0
     /\ fileExists(fs, op.machinePath)
     /\ op.basePath # <<>> => fileExists(fs, op.basePath)}

\* C38: once the change events have stopped and every execution the watcher
\* started has finished, the output of each merge operation an event was about
\* holds what its sources give as they are now
C38_OutputReflectsLastEvent ==
  WatcherQuiet =>
    \A op \in ChangedOperations :
      LET merged == ComputeMerged(fs, op, getAdapter(op.outputPath))
      IN merged.error = "none"
           => /\ fileExists(fs, op.outputPath)
              /\ fs[normalize(op.outputPath)].content = merged.content

\* the paths the operations of a ScanResult read
SourcePathsOf(result) ==
  {result.mergeOperations[i].basePath : i \in 1..Len(result.mergeOperations)}
    \cup {result.mergeOperations[i].machinePath : i \in 1..Len(result.mergeOperations)}
    \cup {result.directoryOperations[i].sourcePath :
            i \in 1..Len(result.directoryOperations)}

\* C39: no outputPath of an operation of a ScanResult is a basePath, a
\* machinePath or a directory sourcePath of that ScanResult, and none lies
\* inside a directory sourcePath
C39_OutputsAreNoSources ==
  (Returned("scanAllOperations") /\ applied.result.error = "none")
    => \A out \in Range(OutputPaths(applied.result)) :
         /\ normalize(out) \notin {normalize(p) : p \in SourcePathsOf(applied.result) \ {<<>>}}
         /\ \A i \in 1..Len(applied.result.directoryOperations) :
              ~IsAncestor(normalize(applied.result.directoryOperations[i].sourcePath),
                          normalize(out))

----------------------------------------------------------------------------
(* Properties of performDirectoryCopy called directly *)

\* the paths whose entry is not the same before and after the step
ChangedPaths ==
  {p \in DOMAIN fs \cup DOMAIN fs' :
     p \notin DOMAIN fs \/ p \notin DOMAIN fs' \/ fs[p] # fs'[p]}

\* C40: performDirectoryCopy creates or overwrites only the output directory
\* and paths inside it that have an entry at the same relative path under
\* sourcePath; every other entry of the disk, those under sourcePath included,
\* is after the call what it was before
C40_CopyTouchesOnlyCounterparts ==
  [][Returns("performDirectoryCopy") =>
       LET sourcePath == normalize(applied.args[1].sourcePath)
           outputPath == normalize(applied.args[1].outputPath)
       IN \A p \in ChangedPaths :
            /\ IsAtOrUnder(p, outputPath)
            /\ pathExists(fs, Rebase(p, outputPath, sourcePath))
            /\ p \in DOMAIN fs']_vars

====
